---- MODULE Spec2Model ----
(***************************************************************************)
(* A model of the real-time delivery and secure-session-coordination core  *)
(* of THAP-Circles: the SSE connection manager, the notification outbox,   *)
(* the pre-key store, the sender-key distributor and the encrypted relay.  *)
(* An action is one uninterrupted run of a handler between two awaits: a    *)
(* database call is one atomic step (MongoDB applies a single-document      *)
(* operation atomically), the JavaScript between two awaits runs to         *)
(* completion with the step that resumes it.                                *)
(***************************************************************************)
EXTENDS Integers, Sequences, FiniteSets, Bags, TLC

\* ------------------------------------------------------------------ bounds
MaxKeys == 3          \* one-time pre-keys a device pool starts with, at most
NumFetchers == 2      \* concurrent fetchKeyBundle calls
NumUploaders == 2     \* uploadKeyBundle calls in one behaviour
MaxSinks == 2         \* SSE response objects opened in one behaviour
NumDistributors == 2  \* distributeSenderKeys calls in one behaviour
NumRemovers == 1      \* removeMember calls in one behaviour
NumSenders == 2       \* sendEncryptedMessage calls in one behaviour
NumDeleters == 1      \* deleteMessage calls in one behaviour
NumMarkers == 3       \* markAsRead calls on encrypted messages in one behaviour
MaxCalls == 8         \* consecutive fetchKeyBundle calls of one caller
NumCreators == 2      \* createNotification calls in one behaviour
NumPollers == 1       \* pollNotifications requests in flight at a time
NumReaders == 1       \* markAsRead calls in one behaviour
MaxHeartbeats == 1    \* heartbeat timer callbacks of one stream
MaxOver == 2          \* requests of one caller beyond the limit of a window
MaxAdvances == 3      \* steps of the clock in one behaviour

\* ------------------------------------------------------- program constants
PRE_KEY_LOW_THRESHOLD == 25
timeout == 30000
pollInterval == 1000
staleThreshold == 5 * 60 * 1000
cleanupInterval == 2 * 60 * 1000

\* --------------------------------------------------------------- universes
Users == {"u1", "u2", "u3"}
UserOrder == <<"u1", "u2", "u3">>
Groups == {"g1", "g2"}
Devices == {"d1", "d2"}
DeviceOrder == <<"d1", "d2">>
Fetchers == 1..NumFetchers
Uploaders == 1..NumUploaders
Distributors == 1..NumDistributors
Removers == 1..NumRemovers
Senders == 1..NumSenders
Deleters == 1..NumDeleters
Markers == 1..NumMarkers
Creators == 1..NumCreators
Pollers == 1..NumPollers
Readers == 1..NumReaders
Sinks == 1..MaxSinks
NoSink == 0
NoEntry == -1
NoKey == 0
NoBundle == [present |-> FALSE, identityKey |-> "", signedPreKey |-> 0, oneTimePreKeys |-> <<>>]
KeyOwner == "u1"

VARIABLES
  \* SSEConnectionManager (process-local)
  connections,    \* userId -> the response object registered for it, or NoSink
  lastActivity,   \* userId -> time since the last activity of its entry, or NoEntry
  responses,      \* response object -> [ended, written]
  pushed,         \* history: the (user, event) pairs sendToUser was called with
  \* KeyBundle collection of KeyOwner, one document per device
  keyBundles,
  uploaded,       \* history: deviceId -> the one-time pre-keys ever put into its pool
  fetchers,       \* the fetchKeyBundle calls in flight
  deviceDocs,     \* Device collection: the (userId, deviceId) pairs registered
  uploaders,      \* the uploadKeyBundle calls of KeyOwner
  \* Group and GroupSenderKey collections
  groups,         \* groupId -> [isActive, createdBy, members, admins, v]
  senderKeys,     \* the GroupSenderKey documents, a bag of rows
  lastUpsert,     \* history: key tuple -> the (key, version) of the last upsert applied
  distributors,   \* the distributeSenderKeys calls
  removers,       \* the removeMember calls
  \* Notification collection
  notifications,  \* the documents in creation order; _id is the position
  creators,       \* the createNotification calls
  streams,        \* response object -> the streamSSE request that owns it
  pollers,        \* the pollNotifications requests
  pulled,         \* history: the (user, notification id) pairs sent in a poll response
  readers,        \* the markAsRead calls
  readCalls,      \* history: the (caller, id) of markAsRead and (caller, 0) of markAllAsRead calls
  \* EncryptedMessage collection
  encryptedMessages,  \* the documents in creation order; _id is the position
  senders,        \* the sendEncryptedMessage calls
  deleters,       \* the deleteMessage calls
  markers,        \* the markAsRead calls on encrypted messages
  \* rate limiter (process-local)
  rateLimitStore, \* caller -> [windowStart, count], or NoRecord
  now,            \* Date.now(), in ms since the first request
  admitted,       \* history: caller -> requests handed on in its current window
  lastReply,      \* history: caller -> the outcome of its last request
  admissions,     \* history: caller -> the times of its requests handed on in the last windowMs
  swept           \* the cleanup timer of the limiter has fired

sseVars == <<connections, lastActivity, responses, pushed>>
uploadCalls == <<deviceDocs, uploaders>>
keyVars == <<keyBundles, uploaded, fetchers, uploadCalls>>
groupVars == <<groups, senderKeys, lastUpsert, distributors, removers>>
notifCalls == <<creators, streams, pollers, pulled, readers, readCalls>>
notifVars == <<notifications, notifCalls>>
msgVars == <<encryptedMessages, senders, deleters, markers>>
rateVars == <<rateLimitStore, now, admitted, lastReply, admissions, swept>>
nonKeyVars == <<groupVars, notifVars, msgVars, rateVars>>
nonGroupVars == <<keyVars, msgVars, rateVars>>
nonMsgVars == <<keyVars, groupVars, rateVars>>
nonNotifVars == <<keyVars, groupVars, msgVars, rateVars>>
vars == <<connections, lastActivity, responses, pushed, keyBundles, uploaded, fetchers,
          deviceDocs, uploaders,
          groups, senderKeys, lastUpsert, distributors, removers, notifications,
          creators, streams, pollers, pulled, readers, readCalls,
          encryptedMessages, senders, deleters, markers,
          rateLimitStore, now, admitted, lastReply, admissions, swept>>

\* ------------------------------------------------------------ small helpers
Range(s) == {s[i] : i \in 1..Len(s)}
Min(a, b) == IF a < b THEN a ELSE b
Interval(a, b) == [i \in 1..(b - a + 1) |-> a + i - 1]

\* ===================================================== SSEConnectionManager
Event(name, dev, n) == [event |-> name, dev |-> dev, n |-> n]

SSE == [connections |-> connections, lastActivity |-> lastActivity,
        responses |-> responses, pushed |-> pushed, sent |-> FALSE,
        successful |-> <<>>, failed |-> <<>>]

SetSSE(w) ==
  /\ connections' = w.connections
  /\ lastActivity' = w.lastActivity
  /\ responses' = w.responses
  /\ pushed' = w.pushed

KeepConnection(w, u) == w

\* removeConnection(userId)
RemoveConnection(w, u) ==
  IF w.connections[u] # NoSink
  THEN [w EXCEPT !.connections[u] = NoSink, !.lastActivity[u] = NoEntry]
  ELSE w

StaleOnSuccess(w, u, ev, ok) ==
  LET res == w.connections[u]
      w1 == [w EXCEPT !.pushed = @ \cup {<<u, ev.event>>}]
  IN IF res = NoSink THEN [w1 EXCEPT !.sent = FALSE]
     ELSE IF ok
       THEN [w1 EXCEPT !.responses[res].written = Append(@, ev), !.sent = TRUE]
       ELSE [RemoveConnection(w1, u) EXCEPT !.sent = FALSE]

\* sendToUser(userId, event, data); ok: res.write returned rather than threw
SendToUser(w, u, ev, ok) ==
  LET res == w.connections[u]
      w1 == [w EXCEPT !.pushed = @ \cup {<<u, ev.event>>}]
  IN IF res = NoSink THEN [w1 EXCEPT !.sent = FALSE]
     ELSE IF ok
       THEN [w1 EXCEPT !.responses[res].written = Append(@, ev),
                       !.lastActivity[u] = 0,
                       !.sent = TRUE]
       ELSE [RemoveConnection(w1, u) EXCEPT !.sent = FALSE]

\* results.successful.push(userId) or results.failed.push(userId)
PushResult(w, u) ==
  IF w.sent THEN [w EXCEPT !.successful = Append(@, u)]
  ELSE [w EXCEPT !.failed = Append(@, u)]

RECURSIVE StopAtFailure(_, _, _, _)
StopAtFailure(w, userIds, ev, failing) ==
  IF userIds = <<>> THEN w
  ELSE LET w1 == PushResult(SendToUser(w, Head(userIds), ev, Head(userIds) \notin failing),
                            Head(userIds))
       IN IF w1.sent THEN StopAtFailure(w1, Tail(userIds), ev, failing)
          ELSE [w1 EXCEPT !.failed = @ \o Tail(userIds)]

\* sendToUsers(userIds, event, data): one sendToUser per listed user, in order;
\* failing: the users whose write throws
RECURSIVE SendToUsers(_, _, _, _)
SendToUsers(w, userIds, ev, failing) ==
  IF userIds = <<>> THEN w
  ELSE SendToUsers(PushResult(SendToUser(w, Head(userIds), ev, Head(userIds) \notin failing),
                              Head(userIds)),
                   Tail(userIds), ev, failing)

\* the listed users that have an entry in the connection table
Online(userIds) == {u \in Range(userIds) : connections[u] # NoSink}

\* an array of user ids held as a set, in document order
AsList(S) == SelectSeq(UserOrder, LAMBDA u : u \in S)

\* the state of the subsystems a specification leaves alone
SseIdle ==
  /\ connections = [u \in Users |-> NoSink]
  /\ lastActivity = [u \in Users |-> NoEntry]
  /\ responses = [s \in Sinks |-> [ended |-> FALSE, written |-> <<>>]]
  /\ pushed = {}

\* ===================================================== notification service
\* notificationSchema.type: the enum mongoose validates on create
NotificationTypes ==
  {"message.new", "message.deleted", "message.delivered", "message.read", "group.invite",
   "group.member_removed", "group.member_left", "group.role_updated", "group.updated",
   "group.deleted"}

DeliveredAtCreate(u, type) ==
  [user |-> u, type |-> type, isDelivered |-> TRUE, isRead |-> FALSE]

\* the document Notification.create is called with
Notification(u, type) == [user |-> u, type |-> type, isDelivered |-> FALSE, isRead |-> FALSE]

ValidNotification(doc) == doc.type \in NotificationTypes

\* .sort({ createdAt: -1 })
SortDescending(S) ==
  [i \in 1..Cardinality(S) |-> CHOOSE x \in S : Cardinality({y \in S : y > x}) = i - 1]

\* .sort({ createdAt: 1 }): documents are created in the order of their ids
SortAscending(S) ==
  [i \in 1..Cardinality(S) |-> CHOOSE x \in S : Cardinality({y \in S : y < x}) = i - 1]

FindsNothing(store, u) == <<>>

\* getUndeliveredNotifications(userId), as the list of ids
GetUndeliveredNotifications(store, u) ==
  SortAscending({id \in 1..Len(store) : store[id].user = u /\ ~store[id].isDelivered})

MarksNothing(doc, id, ids, u) == FALSE

\* the filter of markAsDelivered
DeliveredFilter(doc, id, ids, u) == id \in ids /\ doc.user = u /\ ~doc.isDelivered

\* markAsDelivered(notificationIds, userId)
MarkAsDelivered(store, ids, u) ==
  [id \in 1..Len(store) |->
     IF DeliveredFilter(store[id], id, ids, u) THEN [store[id] EXCEPT !.isDelivered = TRUE]
     ELSE store[id]]

AnyOwner(doc, u) == TRUE

\* the user part of the filters of markAsRead and markAllAsRead
OwnedBy(doc, u) == doc.user = u

\* markAllAsRead(userId): one updateMany
MarkAllRead(store, u) ==
  [id \in 1..Len(store) |->
     IF OwnedBy(store[id], u) /\ ~store[id].isRead THEN [store[id] EXCEPT !.isRead = TRUE]
     ELSE store[id]]

MarkAlways(sent) == TRUE

\* if (sent) { notification.isDelivered = true; ... }
MarkIfSent(sent) == sent

IdleCreator == [pc |-> "idle", userId |-> "u1", id |-> 0, sent |-> FALSE, error |-> ""]

\* createNotification: Notification.create({...})
CreateStart(p, u, t) ==
  /\ creators[p].pc = "idle"
  /\ IF ValidNotification(Notification(u, t))
     THEN /\ notifications' = Append(notifications, Notification(u, t))
          /\ creators' = [creators EXCEPT
               ![p] = [IdleCreator EXCEPT !.pc = "push", !.userId = u,
                                          !.id = Len(notifications) + 1]]
     ELSE /\ notifications' = notifications
          /\ creators' = [creators EXCEPT
               ![p] = [IdleCreator EXCEPT !.pc = "done", !.error = "ValidationError"]]
  /\ UNCHANGED <<streams, pollers, pulled, readers, readCalls, sseVars, nonNotifVars>>

\* createNotification after the create: isUserOnline, sendToUser, and the
\* change of the created document when the write returned
CreatePush(p) ==
  /\ creators[p].pc = "push"
  /\ LET c == creators[p] IN
       IF connections[c.userId] # NoSink
       THEN \E ok \in BOOLEAN :
              LET w == SendToUser(SSE, c.userId, Event("notification", "", c.id), ok)
              IN /\ SetSSE(w)
                 /\ creators' = [creators EXCEPT
                      ![p].sent = w.sent,
                      ![p].pc = IF MarkIfSent(w.sent) THEN "save" ELSE "done"]
       ELSE /\ creators' = [creators EXCEPT ![p].pc = "done"]
            /\ UNCHANGED sseVars
  /\ UNCHANGED <<notifications, streams, pollers, pulled, readers, readCalls, nonNotifVars>>

\* the document as createNotification holds it, written whole
SaveLoaded(doc) == [Notification(doc.user, doc.type) EXCEPT !.isDelivered = TRUE]

\* notification.isDelivered = true; save() writes the modified path only
SaveDelivered(doc) == [doc EXCEPT !.isDelivered = TRUE]

\* await notification.save()
CreateSave(p) ==
  /\ creators[p].pc = "save"
  /\ notifications' = [notifications EXCEPT ![creators[p].id] = SaveDelivered(@)]
  /\ creators' = [creators EXCEPT ![p].pc = "done"]
  /\ UNCHANGED <<streams, pollers, pulled, readers, readCalls, sseVars, nonNotifVars>>

\* the locals of a markAsRead or deleteNotification call
IdleReader ==
  [pc |-> "idle", op |-> "read", notificationId |-> 0, userId |-> "u1", error |-> ""]

\* markAsRead: Notification.findOne({ _id, user }) and the checks on its result
MarkAsReadFind(p, id, u) ==
  /\ readers[p].pc = "idle"
  /\ id \in 1..Len(notifications)
  /\ readCalls' = readCalls \cup {<<u, id>>}
  /\ LET r == [IdleReader EXCEPT !.notificationId = id, !.userId = u]
     IN readers' = [readers EXCEPT ![p] =
          IF ~OwnedBy(notifications[id], u)
          THEN [r EXCEPT !.pc = "done", !.error = "Notification not found"]
          ELSE IF notifications[id].isRead THEN [r EXCEPT !.pc = "done"]
          ELSE [r EXCEPT !.pc = "save"]]
  /\ UNCHANGED <<notifications, creators, streams, pollers, pulled, sseVars, nonNotifVars>>

\* notificationSchema.methods.markAsRead: this.isRead = true; this.save()
MarkAsReadSave(p) ==
  /\ readers[p].pc = "save"
  /\ notifications' = [notifications EXCEPT ![readers[p].notificationId].isRead = TRUE]
  /\ readers' = [readers EXCEPT ![p].pc = "done"]
  /\ UNCHANGED <<creators, streams, pollers, pulled, readCalls, sseVars, nonNotifVars>>

\* markAllAsRead(userId)
MarkAllAsRead(u) ==
  /\ notifications' = MarkAllRead(notifications, u)
  /\ readCalls' = readCalls \cup {<<u, 0>>}
  /\ UNCHANGED <<creators, streams, pollers, pulled, readers, sseVars, nonNotifVars>>

\* the place of a document that was deleted: no filter on user matches it
NoNotification == [user |-> "", type |-> "", isDelivered |-> TRUE, isRead |-> TRUE]

\* deleteNotification: Notification.findOneAndDelete({ _id, user })
DeleteNotification(p, id, u) ==
  /\ readers[p].pc = "idle"
  /\ id \in 1..Len(notifications)
  /\ LET r == [IdleReader EXCEPT !.op = "delete", !.notificationId = id, !.userId = u,
                                 !.pc = "done"]
     IN IF OwnedBy(notifications[id], u)
        THEN /\ notifications' = [notifications EXCEPT ![id] = NoNotification]
             /\ readers' = [readers EXCEPT ![p] = r]
        ELSE /\ notifications' = notifications
             /\ readers' = [readers EXCEPT ![p] = [r EXCEPT !.error = "Notification not found"]]
  /\ UNCHANGED <<creators, streams, pollers, pulled, readCalls, sseVars, nonNotifVars>>

\* ========================================================== sse controller
KeepExisting(resps, existing) == resps

\* existingRes.end()
EndExisting(resps, existing) == [resps EXCEPT ![existing].ended = TRUE]

\* addConnection(userId, res)
AddConnection(w, u, res) ==
  LET existing == w.connections[u]
      resps == IF existing # NoSink THEN EndExisting(w.responses, existing) ELSE w.responses
  IN [w EXCEPT !.responses = resps, !.connections[u] = res, !.lastActivity[u] = 0]

\* stale after one cleanup interval rather than after staleThreshold
StaleAfterInterval(age) == age # NoEntry /\ age > cleanupInterval

\* cleanupStaleConnections(): now - timestamp > staleThreshold
IsStale(age) == age # NoEntry /\ age > staleThreshold

CleanupStaleConnections(w) ==
  [w EXCEPT !.connections = [u \in Users |-> IF IsStale(w.lastActivity[u]) THEN NoSink ELSE @[u]],
            !.lastActivity = [u \in Users |-> IF IsStale(w.lastActivity[u]) THEN NoEntry ELSE @[u]]]

\* the forEach of streamSSE over the undelivered list: one sendToUser per
\* notification, the ids of those sent collected in order; okCount: the writes
\* that return before one throws
RECURSIVE Replay(_, _, _, _)
Replay(w, u, ids, okCount) ==
  IF ids = <<>> THEN [sse |-> w, notificationIds |-> <<>>]
  ELSE LET w1 == SendToUser(w, u, Event("notification", "", Head(ids)), okCount > 0)
           rest == Replay(w1, u, Tail(ids), IF okCount > 0 THEN okCount - 1 ELSE 0)
       IN [sse |-> rest.sse,
           notificationIds |-> IF w1.sent THEN <<Head(ids)>> \o rest.notificationIds
                               ELSE rest.notificationIds]

IdleStream ==
  [pc |-> "idle", userId |-> "u1", undelivered |-> <<>>, notificationIds |-> <<>>,
   closed |-> FALSE, beats |-> 0]

\* streamSSE up to the first await: the connected event written to res, and
\* addConnection(userId, res); s is the response object of the request
StreamConnect(s, u) ==
  /\ streams[s].pc = "idle"
  /\ \A t \in Sinks : t < s => streams[t].pc # "idle"
  /\ SetSSE(AddConnection([SSE EXCEPT !.responses[s].written = <<Event("connected", "", 0)>>],
                          u, s))
  /\ streams' = [streams EXCEPT ![s] = [IdleStream EXCEPT !.pc = "read", !.userId = u]]
  /\ UNCHANGED <<notifications, creators, pollers, pulled, readers, readCalls, nonNotifVars>>

\* await getUndeliveredNotifications(userId)
StreamRead(s) ==
  /\ streams[s].pc = "read"
  /\ streams' = [streams EXCEPT
       ![s].pc = "replay",
       ![s].undelivered = GetUndeliveredNotifications(notifications, streams[s].userId)]
  /\ UNCHANGED <<notifications, creators, pollers, pulled, readers, readCalls, sseVars,
                 nonNotifVars>>

\* the code after the read: the forEach; with nothing sent, the heartbeat
\* timer and the close listener are set up at once
StreamReplay(s) ==
  /\ streams[s].pc = "replay"
  /\ \E okCount \in 0..Len(streams[s].undelivered) :
       LET r == Replay(SSE, streams[s].userId, streams[s].undelivered, okCount)
       IN /\ SetSSE(r.sse)
          /\ streams' = [streams EXCEPT
               ![s].notificationIds = r.notificationIds,
               ![s].pc = IF r.notificationIds # <<>> THEN "mark" ELSE "open"]
  /\ UNCHANGED <<notifications, creators, pollers, pulled, readers, readCalls, nonNotifVars>>

\* await markAsDelivered(notificationIds, userId), then the heartbeat timer and
\* the close listener
StreamMark(s) ==
  /\ streams[s].pc = "mark"
  /\ notifications' = MarkAsDelivered(notifications, Range(streams[s].notificationIds),
                                      streams[s].userId)
  /\ streams' = [streams EXCEPT ![s].pc = "open"]
  /\ UNCHANGED <<creators, pollers, pulled, readers, readCalls, sseVars, nonNotifVars>>

\* the heartbeat timer callback: sendHeartbeat(userId)
Heartbeat(s) ==
  /\ streams[s].pc = "open"
  /\ streams[s].beats < MaxHeartbeats
  /\ \E ok \in BOOLEAN :
       SetSSE(SendToUser(SSE, streams[s].userId, Event("heartbeat", "", 0), ok))
  /\ streams' = [streams EXCEPT ![s].beats = @ + 1]
  /\ UNCHANGED <<notifications, creators, pollers, pulled, readers, readCalls, nonNotifVars>>

\* the request's close event: with the listener set up, clearInterval and
\* removeConnection(userId); before that nobody listens
ClientClose(s) ==
  /\ streams[s].pc \in {"read", "replay", "mark", "open"}
  /\ ~streams[s].closed
  /\ IF streams[s].pc = "open"
     THEN /\ streams' = [streams EXCEPT ![s].pc = "closed", ![s].closed = TRUE]
          /\ SetSSE(RemoveConnection(SSE, streams[s].userId))
     ELSE /\ streams' = [streams EXCEPT ![s].closed = TRUE]
          /\ UNCHANGED sseVars
  /\ UNCHANGED <<notifications, creators, pollers, pulled, readers, readCalls, nonNotifVars>>

\* time passes: every last-activity entry grows older by one cleanup interval
Tick ==
  /\ \E u \in Users : lastActivity[u] # NoEntry /\ ~IsStale(lastActivity[u])
  /\ lastActivity' = [u \in Users |->
       IF lastActivity[u] = NoEntry \/ IsStale(lastActivity[u]) THEN lastActivity[u]
       ELSE lastActivity[u] + cleanupInterval]
  /\ UNCHANGED <<connections, responses, pushed, notifVars, nonNotifVars>>

\* the cleanup timer callback
Cleanup ==
  /\ SetSSE(CleanupStaleConnections(SSE))
  /\ UNCHANGED <<notifVars, nonNotifVars>>

\* the locals of a pollNotifications request; reads counts its calls of
\* getUndeliveredNotifications
IdlePoller ==
  [pc |-> "idle", userId |-> "u1", elapsed |-> 0, reads |-> 0, notifications |-> <<>>]

\* elapsed > timeout in place of elapsed >= timeout
ExpiredLate(elapsed) == elapsed > timeout

\* the timeout test of poll()
Expired(elapsed) == elapsed >= timeout

\* pollNotifications: the request arrives, poll() is called
PollStart(p, u) ==
  /\ pollers[p].pc = "idle"
  /\ pollers' = [pollers EXCEPT ![p] = [IdlePoller EXCEPT !.pc = "read", !.userId = u]]
  /\ UNCHANGED <<notifications, creators, streams, pulled, readers, readCalls, sseVars,
                 nonNotifVars>>

\* poll(): getUndeliveredNotifications and the code after it: answer an empty
\* list once the timeout has elapsed, or wait pollInterval and read again
PollRead(p) ==
  /\ pollers[p].pc = "read"
  /\ LET found == GetUndeliveredNotifications(notifications, pollers[p].userId)
     IN pollers' = [pollers EXCEPT ![p] =
          IF Len(found) > 0
          THEN [@ EXCEPT !.pc = "mark", !.notifications = found, !.reads = @ + 1]
          ELSE IF Expired(@.elapsed) THEN IdlePoller
          ELSE [@ EXCEPT !.elapsed = @ + pollInterval, !.reads = @ + 1]]
  /\ UNCHANGED <<notifications, creators, streams, pulled, readers, readCalls, sseVars,
                 nonNotifVars>>

\* await markAsDelivered(notificationIds, userId)
PollMark(p) ==
  /\ pollers[p].pc = "mark"
  /\ notifications' = MarkAsDelivered(notifications, Range(pollers[p].notifications),
                                      pollers[p].userId)
  /\ pollers' = [pollers EXCEPT ![p].pc = "respond"]
  /\ UNCHANGED <<creators, streams, pulled, readers, readCalls, sseVars, nonNotifVars>>

\* res.status(OK).json({ notifications, ... })
PollRespond(p) ==
  /\ pollers[p].pc = "respond"
  /\ pulled' = pulled \cup {<<pollers[p].userId, id>> : id \in Range(pollers[p].notifications)}
  /\ pollers' = [pollers EXCEPT ![p] = IdlePoller]
  /\ UNCHANGED <<notifications, creators, streams, readers, readCalls, sseVars, nonNotifVars>>

\* the server process exits while createNotification calls are in flight:
\* every call and request in flight is gone, and so are the connection table
\* and the sockets; the stored documents stay
Crash ==
  /\ \E p \in Creators : creators[p].pc \in {"push", "save"}
  /\ creators' = [p \in Creators |->
       IF creators[p].pc \in {"push", "save"} THEN [creators[p] EXCEPT !.pc = "crashed"]
       ELSE creators[p]]
  /\ pollers' = [p \in Pollers |-> IdlePoller]
  /\ readers' = [p \in Readers |->
       IF readers[p].pc = "save" THEN [IdleReader EXCEPT !.pc = "done", !.error = "crashed"]
       ELSE readers[p]]
  /\ streams' = [s \in Sinks |->
       IF streams[s].pc \in {"idle", "closed"} THEN streams[s]
       ELSE [streams[s] EXCEPT !.pc = "closed", !.closed = TRUE]]
  /\ connections' = [u \in Users |-> NoSink]
  /\ lastActivity' = [u \in Users |-> NoEntry]
  /\ UNCHANGED <<responses, pushed, notifications, pulled, readCalls, nonNotifVars>>

\* no notification stored, no request or call started
NotifIdle ==
  /\ notifications = <<>>
  /\ creators = [p \in Creators |-> IdleCreator]
  /\ streams = [s \in Sinks |-> IdleStream]
  /\ pollers = [p \in Pollers |-> IdlePoller]
  /\ pulled = {}
  /\ readers = [p \in Readers |-> IdleReader]
  /\ readCalls = {}

\* ============================================================ key store
\* KeyBundle.find({ userId }): the documents that exist, in device order
RECURSIVE FoundFrom(_, _)
FoundFrom(kb, i) ==
  IF i > Len(DeviceOrder) THEN <<>>
  ELSE IF kb[DeviceOrder[i]].present
    THEN <<DeviceOrder[i]>> \o FoundFrom(kb, i + 1)
    ELSE FoundFrom(kb, i + 1)
FindBundles(kb) == FoundFrom(kb, 1)

\* calls, notices: history of the caller, the calls it has finished and the
\* low-water notices its calls have pushed
IdleFetcher == [pc |-> "idle", bundles |-> <<>>, snapshot |-> [d \in Devices |-> NoBundle],
                i |-> 0, updated |-> NoBundle, devices |-> <<>>, error |-> "",
                calls |-> 0, notices |-> <<>>]

\* the findOneAndUpdate of fetchKeyBundle is issued only for a snapshot with keys
NeedsPop(snap) == Len(snap.oneTimePreKeys) > 0

\* deviceData of a device whose snapshot holds no one-time pre-key
DeviceData(d, snap, key) ==
  [deviceId |-> d, identityKey |-> snap.identityKey,
   signedPreKey |-> snap.signedPreKey, oneTimePreKey |-> key]

RECURSIVE DropEmpty(_, _)
DropEmpty(f, i) ==
  IF i > Len(f.bundles) THEN [f EXCEPT !.pc = "done", !.i = i]
  ELSE IF NeedsPop(f.snapshot[f.bundles[i]]) THEN [f EXCEPT !.pc = "pop", !.i = i]
  ELSE DropEmpty(f, i + 1)

\* the loop of fetchKeyBundle from bundle index i on, up to the next await:
\* bundles without keys in the snapshot are pushed at once
RECURSIVE SkipEmpty(_, _)
SkipEmpty(f, i) ==
  IF i > Len(f.bundles) THEN [f EXCEPT !.pc = "done", !.i = i]
  ELSE LET d == f.bundles[i] IN
       IF NeedsPop(f.snapshot[d]) THEN [f EXCEPT !.pc = "pop", !.i = i]
       ELSE SkipEmpty([f EXCEPT !.devices = Append(@, DeviceData(d, f.snapshot[d], NoKey))], i + 1)

\* const bundles = await KeyBundle.find({ userId: targetUserId })
FetchRead(p) ==
  /\ fetchers[p].pc = "idle"
  /\ LET found == FindBundles(keyBundles)
         f == [fetchers[p] EXCEPT !.bundles = found, !.snapshot = keyBundles]
     IN fetchers' = [fetchers EXCEPT ![p] =
          IF Len(found) = 0 THEN [f EXCEPT !.pc = "done", !.error = "E2E_001"]
          ELSE SkipEmpty(f, 1)]
  /\ UNCHANGED <<keyBundles, uploaded, uploadCalls, sseVars, nonKeyVars>>

\* filter { _id, 'oneTimePreKeys.0': { $exists: true } }
PopMatches(doc) == doc.present /\ Len(doc.oneTimePreKeys) > 0

PopLast(doc) == [doc EXCEPT !.oneTimePreKeys = SubSeq(@, 1, Len(@) - 1)]

\* { $pop: { oneTimePreKeys: -1 } }
PopFirst(doc) == [doc EXCEPT !.oneTimePreKeys = Tail(@)]

\* KeyBundle.findOneAndUpdate(filter, $pop, { new: false })
FetchPop(p) ==
  /\ fetchers[p].pc = "pop"
  /\ LET d == fetchers[p].bundles[fetchers[p].i]
         doc == keyBundles[d]
     IN IF PopMatches(doc)
        THEN /\ keyBundles' = [keyBundles EXCEPT ![d] = PopFirst(doc)]
             /\ fetchers' = [fetchers EXCEPT ![p].pc = "popped", ![p].updated = doc]
        ELSE /\ keyBundles' = keyBundles
             /\ fetchers' = [fetchers EXCEPT ![p].pc = "popped", ![p].updated = NoBundle]
  /\ UNCHANGED <<uploaded, uploadCalls, sseVars, nonKeyVars>>

\* const remainingCount = bundle.oneTimePreKeys.length - 1
RemainingCount(snap) == Len(snap.oneTimePreKeys) - 1

IsLowInclusive(remainingCount) ==
  remainingCount <= PRE_KEY_LOW_THRESHOLD /\ remainingCount >= 0

\* if (remainingCount < PRE_KEY_LOW_THRESHOLD && remainingCount >= 0)
IsLow(remainingCount) == remainingCount < PRE_KEY_LOW_THRESHOLD /\ remainingCount >= 0

\* the key read from the document returned by the pop
ConsumedKey(updated) ==
  IF updated.present /\ Len(updated.oneTimePreKeys) > 0
  THEN updated.oneTimePreKeys[1] ELSE NoKey

\* the keys:prekey_low payload, with the number of the call that pushed it
Notice(d, remainingCount, call) ==
  [deviceId |-> d, remainingCount |-> remainingCount, call |-> call]

\* the code after the pop: read the consumed key, push the low-water notice,
\* push deviceData, go on with the next bundle
FetchAfterPop(p) ==
  /\ fetchers[p].pc = "popped"
  /\ LET f == fetchers[p]
         d == f.bundles[f.i]
         snap == f.snapshot[d]
         data == DeviceData(d, snap, ConsumedKey(f.updated))
         low == IsLow(RemainingCount(snap))
         f1 == [f EXCEPT !.devices = Append(@, data), !.updated = NoBundle,
                         !.notices = IF low THEN Append(@, Notice(d, RemainingCount(snap), f.calls + 1))
                                     ELSE @]
     IN /\ fetchers' = [fetchers EXCEPT ![p] = SkipEmpty(f1, f.i + 1)]
        /\ IF low
           THEN \E ok \in BOOLEAN :
                  SetSSE(SendToUser(SSE, KeyOwner,
                                    Event("keys:prekey_low", d, RemainingCount(snap)), ok))
           ELSE UNCHANGED sseVars
  /\ UNCHANGED <<keyBundles, uploaded, uploadCalls, nonKeyVars>>

\* return { userId, devices }, or the throw of E2E_001: the call is over and
\* the caller may call again
FetchReturn(p) ==
  /\ fetchers[p].pc = "done"
  /\ fetchers[p].calls + 1 < MaxCalls
  /\ fetchers' = [fetchers EXCEPT
       ![p] = [IdleFetcher EXCEPT !.calls = fetchers[p].calls + 1,
                                  !.notices = fetchers[p].notices]]
  /\ UNCHANGED <<keyBundles, uploaded, uploadCalls, sseVars, nonKeyVars>>

FindAnyOwner(docs, u, d) == \E v \in Users : <<v, d>> \in docs

\* Device.findOne({ userId, deviceId })
FindDevice(docs, u, d) == <<u, d>> \in docs

\* every device of KeyOwner registered, none of anybody else
OwnDevices == {KeyOwner} \X Devices

\* the locals of an uploadKeyBundle call; replaced, notified: history, the
\* document the upsert replaced and whether the call pushed the
\* device:identity_key_changed notice.  A replenishPreKeys or getPreKeyCount
\* call is held the same way, with the number it returns in total
IdleUploader ==
  [pc |-> "idle", deviceId |-> "d1", identityKey |-> "", oneTimePreKeys |-> <<>>,
   existingBundle |-> NoBundle, identityKeyChanged |-> FALSE, error |-> "",
   replaced |-> NoBundle, notified |-> FALSE, op |-> "uploadKeyBundle", total |-> 0]

\* the bundles a client uploads: an identity key and a list of fresh one-time
\* pre-keys, possibly empty
IdentityKeys == {"ikA", "ikB"}
KeyLists(p) == {<<>>, <<10 * p + 1>>}

\* uploadKeyBundle up to KeyBundle.findOne: the device must be registered
UploadStart(p) ==
  /\ uploaders[p].pc = "idle"
  /\ \E d \in Devices, ik \in IdentityKeys, keys \in KeyLists(p) :
       uploaders' = [uploaders EXCEPT ![p] =
         IF ~FindDevice(deviceDocs, KeyOwner, d)
         THEN [IdleUploader EXCEPT !.pc = "done", !.deviceId = d, !.error = "E2E_008"]
         ELSE [IdleUploader EXCEPT !.pc = "find", !.deviceId = d, !.identityKey = ik,
                                   !.oneTimePreKeys = keys]]
  /\ UNCHANGED <<keyBundles, uploaded, fetchers, deviceDocs, sseVars, nonKeyVars>>

\* existingBundle && existingBundle.identityKey !== identityKey
IdentityKeyChanged(existingBundle, identityKey) ==
  existingBundle.present /\ existingBundle.identityKey # identityKey

\* const existingBundle = await KeyBundle.findOne({ userId, deviceId })
UploadFind(p) ==
  /\ uploaders[p].pc = "find"
  /\ uploaders' = [uploaders EXCEPT
       ![p].pc = "upsert",
       ![p].existingBundle = keyBundles[uploaders[p].deviceId],
       ![p].identityKeyChanged =
          IdentityKeyChanged(keyBundles[uploaders[p].deviceId], uploaders[p].identityKey)]
  /\ UNCHANGED <<keyBundles, uploaded, fetchers, deviceDocs, sseVars, nonKeyVars>>

\* the document the upsert of uploadKeyBundle leaves
UploadedBundle(up) ==
  [present |-> TRUE, identityKey |-> up.identityKey, signedPreKey |-> 1,
   oneTimePreKeys |-> up.oneTimePreKeys]

\* KeyBundle.findOneAndUpdate({ userId, deviceId }, {...}, { upsert: true })
UploadUpsert(p) ==
  /\ uploaders[p].pc = "upsert"
  /\ LET d == uploaders[p].deviceId
     IN /\ keyBundles' = [keyBundles EXCEPT ![d] = UploadedBundle(uploaders[p])]
        /\ uploaded' = [uploaded EXCEPT ![d] = @ \o uploaders[p].oneTimePreKeys]
        /\ uploaders' = [uploaders EXCEPT ![p].pc = "notify", ![p].replaced = keyBundles[d]]
  /\ UNCHANGED <<fetchers, deviceDocs, sseVars, nonKeyVars>>

\* the code after the upsert: the notice of a changed identity key
UploadNotify(p) ==
  /\ uploaders[p].pc = "notify"
  /\ IF uploaders[p].identityKeyChanged
     THEN \E ok \in BOOLEAN :
            SetSSE(SendToUser(SSE, KeyOwner,
                              Event("device:identity_key_changed", uploaders[p].deviceId, 0),
                              ok))
     ELSE UNCHANGED sseVars
  /\ uploaders' = [uploaders EXCEPT ![p].pc = "done",
                                    ![p].notified = uploaders[p].identityKeyChanged]
  /\ UNCHANGED <<keyBundles, uploaded, fetchers, deviceDocs, nonKeyVars>>

\* ============================================================ rate limiter
\* the keys a client replenishes with
ReplenishLists(p) == {<<10 * p + 2>>, <<10 * p + 2, 10 * p + 3>>}

PushFront(doc, preKeys) == [doc EXCEPT !.oneTimePreKeys = preKeys \o @]

\* { $push: { oneTimePreKeys: { $each: preKeys } } }
PushEach(doc, preKeys) == [doc EXCEPT !.oneTimePreKeys = @ \o preKeys]

\* replenishPreKeys: KeyBundle.findOneAndUpdate({ userId, deviceId }, $push,
\* { new: true }) and totalPreKeys of the document it returns
ReplenishPreKeys(p) ==
  /\ uploaders[p].pc = "idle"
  /\ \E d \in Devices, preKeys \in ReplenishLists(p) :
       LET r == [IdleUploader EXCEPT !.op = "replenishPreKeys", !.deviceId = d,
                                     !.oneTimePreKeys = preKeys, !.pc = "done"]
       IN IF keyBundles[d].present
          THEN LET bundle == PushEach(keyBundles[d], preKeys)
               IN /\ keyBundles' = [keyBundles EXCEPT ![d] = bundle]
                  /\ uploaded' = [uploaded EXCEPT ![d] = @ \o preKeys]
                  /\ uploaders' = [uploaders EXCEPT
                       ![p] = [r EXCEPT !.total = Len(bundle.oneTimePreKeys)]]
          ELSE /\ keyBundles' = keyBundles /\ uploaded' = uploaded
               /\ uploaders' = [uploaders EXCEPT ![p] = [r EXCEPT !.error = "E2E_001"]]
  /\ UNCHANGED <<fetchers, deviceDocs, sseVars, nonKeyVars>>

\* getPreKeyCount: KeyBundle.findOne({ userId, deviceId }) and the length of
\* its oneTimePreKeys
GetPreKeyCount(p) ==
  /\ uploaders[p].pc = "idle"
  /\ \E d \in Devices :
       LET r == [IdleUploader EXCEPT !.op = "getPreKeyCount", !.deviceId = d, !.pc = "done"]
       IN uploaders' = [uploaders EXCEPT ![p] =
            IF keyBundles[d].present
            THEN [r EXCEPT !.total = Len(keyBundles[d].oneTimePreKeys)]
            ELSE [r EXCEPT !.error = "E2E_001"]]
  /\ UNCHANGED <<keyBundles, uploaded, fetchers, deviceDocs, sseVars, nonKeyVars>>

\* keyBundleRateLimiter = createRateLimiter({ windowMs, max, errorCode })
windowMs == 60 * 1000
max == 60
errorCode == "E2E_006"
sweepInterval == 5 * 60 * 1000

NoRecord == [windowStart |-> -1, count |-> 0]
NoReply == [status |-> 0, code |-> "", retryAfter |-> 0]

\* the request went on to the controller: next()
Passed == [status |-> 200, code |-> "", retryAfter |-> 0]

\* Math.ceil(x / 1000)
CeilSeconds(x) == -((-x) \div 1000)

\* res.status(429).send({ code: errorCode, retryAfter: ... })
TooMany(record, t) ==
  [status |-> 429, code |-> errorCode,
   retryAfter |-> CeilSeconds(record.windowStart + windowMs - t)]

\* !record || now - record.windowStart > windowMs
NewWindow(record, t) == record = NoRecord \/ t - record.windowStart > windowMs

OverLimitLate(count) == count > max + 1

\* record.count > max
OverLimit(count) == count > max

\* the history of admission times of a caller: kept only where timed is set
NotTimed == [timed |-> FALSE, at |-> <<>>]
Timed == [timed |-> TRUE, at |-> <<>>]

\* the request of c at time t was handed on
HandedOn(c, t) ==
  admissions' = IF admissions[c].timed
                THEN [admissions EXCEPT ![c].at = Append(@, t)]
                ELSE admissions

\* the admission times later than t - windowMs
Within(times, t) == SelectSeq(times, LAMBDA a : a > t - windowMs)

\* no request seen, the clock at 0, the cleanup timer not yet fired
LimiterIdle ==
  /\ rateLimitStore = [c \in Users |-> NoRecord]
  /\ now = 0
  /\ admitted = [c \in Users |-> 0]
  /\ lastReply = [c \in Users |-> NoReply]
  /\ admissions = [c \in Users |-> NotTimed]
  /\ swept = FALSE

\* the middleware on GET /bundle/:userId for a request of caller c
RateLimit(c) ==
  /\ LET record == rateLimitStore[c]
     IN IF NewWindow(record, now)
        THEN /\ rateLimitStore' = [rateLimitStore EXCEPT ![c] = [windowStart |-> now, count |-> 1]]
             /\ lastReply' = [lastReply EXCEPT ![c] = Passed]
             /\ admitted' = [admitted EXCEPT ![c] = 1]
             /\ HandedOn(c, now)
        ELSE /\ record.count < max + MaxOver
             /\ rateLimitStore' = [rateLimitStore EXCEPT ![c].count = record.count + 1]
             /\ IF OverLimit(record.count + 1)
                THEN /\ lastReply' = [lastReply EXCEPT ![c] = TooMany(record, now)]
                     /\ admitted' = admitted /\ admissions' = admissions
                ELSE /\ lastReply' = [lastReply EXCEPT ![c] = Passed]
                     /\ admitted' = [admitted EXCEPT ![c] = @ + 1]
                     /\ HandedOn(c, now)
  /\ UNCHANGED <<now, swept, sseVars, keyVars, groupVars, notifVars, msgVars>>

\* the steps the clock takes between two requests
ClockSteps == {1, windowMs}
Advances == (now \div windowMs) + (now % windowMs)

\* Date.now() moves on
Advance(delta) ==
  /\ Advances < MaxAdvances
  /\ now' = now + delta
  /\ admissions' = [c \in Users |-> [admissions[c] EXCEPT !.at = Within(@, now + delta)]]
  /\ UNCHANGED <<rateLimitStore, admitted, lastReply, swept, sseVars, keyVars, groupVars,
                 notifVars, msgVars>>

\* now - data.windowStart > windowMs * 2
Stale(record, t) == record # NoRecord /\ t - record.windowStart > windowMs * 2

\* the setInterval callback of createRateLimiter; the clock stays below
\* sweepInterval, so it fires once at most
Sweep ==
  /\ ~swept
  /\ now < sweepInterval
  /\ swept' = TRUE
  /\ rateLimitStore' = [c \in Users |->
       IF Stale(rateLimitStore[c], now) THEN NoRecord ELSE rateLimitStore[c]]
  /\ UNCHANGED <<now, admitted, lastReply, admissions, sseVars, keyVars, groupVars, notifVars,
                 msgVars>>

\* =================================================== groups and sender keys
\* Group.findOne({ _id: groupId, isActive: true })
FindActiveGroup(g) == groups[g].isActive

AnyoneIsMember(group, u) == TRUE

\* groupSchema.methods.isMember / isAdmin / isCreator on a loaded document
IsMember(group, u) == u \in group.members
IsAdmin(group, u) == u \in group.members /\ u \in group.admins
IsCreator(group, u) == group.createdBy = u

Row(g, s, sd, dist) ==
  [groupId |-> g, senderId |-> s, senderDeviceId |-> sd,
   recipientId |-> dist.recipientId, recipientDeviceId |-> dist.recipientDeviceId,
   encryptedSenderKey |-> dist.encryptedSenderKey,
   version |-> IF dist.version = 0 THEN 1 ELSE dist.version]

SameTuple(a, b) ==
  /\ a.groupId = b.groupId
  /\ a.senderId = b.senderId
  /\ a.senderDeviceId = b.senderDeviceId
  /\ a.recipientId = b.recipientId
  /\ a.recipientDeviceId = b.recipientDeviceId

NeverMatches(row, new) == FALSE

\* the filter of one updateOne of the bulk write
FilterMatches(row, new) == SameTuple(row, new)

\* updateOne { filter, update: { $set, $setOnInsert }, upsert: true }
Upsert(store, new) ==
  LET hit == {row \in BagToSet(store) : FilterMatches(row, new)}
  IN IF hit = {} THEN store (+) SetToBag({new})
     ELSE LET old == CHOOSE row \in hit : TRUE
          IN (store (-) SetToBag({old})) (+) SetToBag({new})

\* what the history keeps: the last upsert applied to each tuple
Remember(hist, new) == {row \in hist : ~SameTuple(row, new)} \cup {new}

Dist(r, rd, k, v) ==
  [recipientId |-> r, recipientDeviceId |-> rd, encryptedSenderKey |-> k, version |-> v]

\* the wrapped key call p distributes and the versions it may send with it
\* (0: no version given)
WrappedKeys == <<"kA", "kB", "kC", "kD">>
VersionsOf(p) == {0, 2 + p}

\* the locals of a distributeSenderKeys call, or of a getSenderKeys call with
\* the list it returns in keys
IdleDistributor ==
  [pc |-> "idle", groupId |-> "g1", senderId |-> "u1", senderDeviceId |-> "d1",
   distributions |-> <<>>, i |-> 0, error |-> "",
   op |-> "distributeSenderKeys", recipientId |-> "", recipientDeviceId |-> "", keys |-> <<>>]

\* distributeSenderKeys up to the bulk write: the membership check
DistributeStart(p) ==
  /\ distributors[p].pc = "idle"
  /\ \E g \in Groups, s \in Users, v \in VersionsOf(p) :
     \E R \in (SUBSET (Users \ {s})) \ {{}} :
       LET ds == [i \in 1..Len(AsList(R)) |-> Dist(AsList(R)[i], "d1", WrappedKeys[p], v)]
           d0 == [IdleDistributor EXCEPT !.groupId = g, !.senderId = s, !.distributions = ds]
           fail(msg) == [IdleDistributor EXCEPT !.pc = "done", !.groupId = g,
                                                !.senderId = s, !.error = msg]
       IN distributors' = [distributors EXCEPT ![p] =
            IF ~FindActiveGroup(g) THEN fail("Group not found")
            ELSE IF ~IsMember(groups[g], s) THEN fail("E2E_004")
            ELSE [d0 EXCEPT !.pc = "write", !.i = 1]]
  /\ UNCHANGED <<groups, senderKeys, lastUpsert, removers, sseVars, notifVars, nonGroupVars>>

\* GroupSenderKey.bulkWrite(bulkOps): the operations are applied in order, each
\* one atomically
DistributeWrite(p) ==
  /\ distributors[p].pc = "write"
  /\ LET d == distributors[p]
         new == Row(d.groupId, d.senderId, d.senderDeviceId, d.distributions[d.i])
     IN /\ senderKeys' = Upsert(senderKeys, new)
        /\ lastUpsert' = Remember(lastUpsert, new)
        /\ distributors' = [distributors EXCEPT
             ![p].i = d.i + 1,
             ![p].pc = IF d.i = Len(d.distributions) THEN "cue" ELSE "write"]
  /\ UNCHANGED <<groups, removers, sseVars, notifVars, nonGroupVars>>

\* [...new Set(distributions.map((d) => d.recipientId.toString()))]
RecipientIds(ds) == AsList({ds[i].recipientId : i \in 1..Len(ds)})

\* the code after the bulk write: the cue to the recipients
DistributeCue(p) ==
  /\ distributors[p].pc = "cue"
  /\ LET ids == RecipientIds(distributors[p].distributions)
     IN \E failing \in SUBSET Online(ids) :
          SetSSE(SendToUsers(SSE, ids, Event("group:sender_key_update", "", 0), failing))
  /\ distributors' = [distributors EXCEPT ![p] = [IdleDistributor EXCEPT !.pc = "done"]]
  /\ UNCHANGED <<groups, senderKeys, lastUpsert, removers, notifVars, nonGroupVars>>

\* getSenderKeys up to GroupSenderKey.find: the group and the membership of
\* the recipient; dev: the recipientDeviceId, "" when none is given
GetSenderKeysStart(p) ==
  /\ distributors[p].pc = "idle"
  /\ \E g \in Groups, u \in Users, dev \in {"", "d1"} :
       LET g0 == [IdleDistributor EXCEPT !.op = "getSenderKeys", !.groupId = g,
                                         !.recipientId = u, !.recipientDeviceId = dev]
       IN distributors' = [distributors EXCEPT ![p] =
            IF ~FindActiveGroup(g) THEN [g0 EXCEPT !.pc = "done", !.error = "Group not found"]
            ELSE IF ~IsMember(groups[g], u) THEN [g0 EXCEPT !.pc = "done", !.error = "E2E_004"]
            ELSE [g0 EXCEPT !.pc = "find"]]
  /\ UNCHANGED <<groups, senderKeys, lastUpsert, removers, sseVars, notifVars, nonGroupVars>>

\* query = { groupId, recipientId } and recipientDeviceId when given
QueryMatches(row, g, u, dev) ==
  row.groupId = g /\ row.recipientId = u /\ (dev # "" => row.recipientDeviceId = dev)

\* .sort({ version: -1 }) of the documents of a bag
RECURSIVE SortByVersion(_)
SortByVersion(store) ==
  IF BagToSet(store) = {} THEN <<>>
  ELSE LET top == CHOOSE row \in BagToSet(store) :
                    \A other \in BagToSet(store) : other.version <= row.version
       IN <<top>> \o SortByVersion(store (-) SetToBag({top}))

\* GroupSenderKey.find(query).select(...).sort({ version: -1 })
FindSenderKeys(store, g, u, dev) ==
  LET hit == {row \in BagToSet(store) : QueryMatches(row, g, u, dev)}
  IN SortByVersion([row \in hit |-> store[row]])

\* const keys = await GroupSenderKey.find(...); return keys
GetSenderKeysFind(p) ==
  /\ distributors[p].pc = "find"
  /\ LET d == distributors[p]
     IN distributors' = [distributors EXCEPT
          ![p].pc = "done",
          ![p].keys = FindSenderKeys(senderKeys, d.groupId, d.recipientId, d.recipientDeviceId)]
  /\ UNCHANGED <<groups, senderKeys, lastUpsert, removers, sseVars, notifVars, nonGroupVars>>

DeleteMatchesAnyGroup(row, g, u) == row.senderId = u \/ row.recipientId = u

\* { groupId, $or: [{ senderId: userId }, { recipientId: userId }] }
DeleteMatches(row, g, u) ==
  row.groupId = g /\ (row.senderId = u \/ row.recipientId = u)

\* GroupSenderKey.deleteMany(filter): the documents left
DeleteMany(store, g, u) ==
  LET keep == {row \in BagToSet(store) : ~DeleteMatches(row, g, u)}
  IN [row \in keep |-> store[row]]

\* result.deletedCount
DeletedCount(store, g, u) == BagCardinality(store) - BagCardinality(DeleteMany(store, g, u))

NoGroup == [isActive |-> FALSE, createdBy |-> "", members |-> {}, admins |-> {}, v |-> 0]

\* the locals of a removeMember call (leaveGroup is removeMember of oneself),
\* of an addMembers call or of a deleteGroup call; added: the users the call
\* has pushed onto members
IdleRemover ==
  [pc |-> "idle", groupId |-> "g1", userId |-> "u1", targetUserId |-> "u1",
   group |-> NoGroup, error |-> "", deletedCount |-> 0,
   op |-> "removeMember", memberIds |-> <<>>, i |-> 0, added |-> {}]

\* a stored notification
\* removeMember up to the save of the membership: the checks, and the splice
\* of groupSchema.methods.removeMember on the loaded document
RemoveStart(p) ==
  /\ removers[p].pc = "idle"
  /\ \E g \in Groups, u \in Users, t \in Users :
       LET r0 == [IdleRemover EXCEPT !.groupId = g, !.userId = u, !.targetUserId = t]
           grp == groups[g]
           fail(msg) == [r0 EXCEPT !.pc = "done", !.error = msg]
       IN removers' = [removers EXCEPT ![p] =
            IF ~FindActiveGroup(g) THEN fail("Group not found")
            ELSE IF u # t /\ ~IsAdmin(grp, u) THEN fail("Only admins can remove members")
            ELSE IF IsCreator(grp, t) THEN fail("Cannot remove group creator")
            ELSE IF ~IsMember(grp, t) THEN fail("User is not a member")
            ELSE [r0 EXCEPT !.pc = "save",
                            !.group = [grp EXCEPT !.members = @ \ {t}, !.admins = @ \ {t}]]]
  /\ UNCHANGED <<groups, senderKeys, lastUpsert, distributors, sseVars, notifVars, nonGroupVars>>

\* this.save() of the spliced members array: mongoose writes the array under
\* the document version it loaded and fails with a VersionError otherwise
RemoveSave(p) ==
  /\ removers[p].pc = "save"
  /\ LET r == removers[p] IN
     IF groups[r.groupId].v = r.group.v
     THEN /\ groups' = [groups EXCEPT ![r.groupId].members = r.group.members,
                                      ![r.groupId].admins = r.group.admins,
                                      ![r.groupId].v = @ + 1]
          /\ removers' = [removers EXCEPT ![p].pc = "sysmsg"]
     ELSE /\ groups' = groups
          /\ removers' = [removers EXCEPT ![p].pc = "done", ![p].error = "VersionError"]
  /\ UNCHANGED <<senderKeys, lastUpsert, distributors, sseVars, notifVars, nonGroupVars>>

\* User.findById (twice) and Message.create of the system message
RemoveSystemMessage(p) ==
  /\ removers[p].pc = "sysmsg"
  /\ removers' = [removers EXCEPT ![p].pc = "notify"]
  /\ UNCHANGED <<groups, senderKeys, lastUpsert, distributors, sseVars, notifVars, nonGroupVars>>

\* createNotification for the removed user, then createNotifications for the
\* remaining members unless the user left by itself; the recipients hold no
\* stream here, so each call is its Notification.create
RemoveNotify(p) ==
  /\ removers[p].pc = "notify"
  /\ \A u \in Users : connections[u] = NoSink
  /\ LET r == removers[p]
         self == r.userId = r.targetUserId
         first == Notification(r.targetUserId,
                               IF self THEN "group.member_left" ELSE "group.member_removed")
         rest == IF self THEN <<>>
                 ELSE [i \in 1..Len(AsList(r.group.members)) |->
                         Notification(AsList(r.group.members)[i], "group.member_removed")]
     IN notifications' = (notifications \o <<first>>) \o rest
  /\ removers' = [removers EXCEPT ![p].pc = "delete"]
  /\ UNCHANGED <<groups, senderKeys, lastUpsert, distributors, sseVars, notifCalls, nonGroupVars>>

\* senderKeyService.deleteSenderKeysForUser(groupId, targetUserId)
RemoveDeleteKeys(p) ==
  /\ removers[p].pc = "delete"
  /\ LET r == removers[p] IN
       /\ senderKeys' = DeleteMany(senderKeys, r.groupId, r.targetUserId)
       /\ removers' = [removers EXCEPT
            ![p].pc = "cue",
            ![p].deletedCount = DeletedCount(senderKeys, r.groupId, r.targetUserId)]
  /\ UNCHANGED <<groups, lastUpsert, distributors, sseVars, notifVars, nonGroupVars>>

\* the code after the delete: the rotation cue to the remaining members
RemoveCue(p) ==
  /\ removers[p].pc = "cue"
  /\ LET ids == AsList(removers[p].group.members)
     IN \E failing \in SUBSET Online(ids) :
          SetSSE(SendToUsers(SSE, ids, Event("group:member_removed", "", 0), failing))
  /\ removers' = [removers EXCEPT ![p].pc = "done"]
  /\ UNCHANGED <<groups, senderKeys, lastUpsert, distributors, notifVars, nonGroupVars>>

\* an awaited call between the save of the membership and the delete of the
\* sender keys rejects (the store is unreachable, a user document is gone):
\* removeMember ends with that error
RemoveFails(p) ==
  /\ removers[p].pc \in {"sysmsg", "notify", "delete"}
  /\ removers' = [removers EXCEPT ![p].pc = "done", ![p].error = "rejected"]
  /\ UNCHANGED <<groups, senderKeys, lastUpsert, distributors, sseVars, notifVars, nonGroupVars>>

\* addMembers up to the loop over memberIds: the group and the admin check
\* (every listed user exists)
AddStart(p) ==
  /\ removers[p].pc = "idle"
  /\ \E g \in Groups, u \in Users, M \in (SUBSET Users) \ {{}} :
       LET r0 == [IdleRemover EXCEPT !.op = "addMembers", !.groupId = g, !.userId = u,
                                     !.memberIds = AsList(M)]
       IN removers' = [removers EXCEPT ![p] =
            IF ~FindActiveGroup(g) THEN [r0 EXCEPT !.pc = "done", !.error = "Group not found"]
            ELSE IF ~IsAdmin(groups[g], u)
              THEN [r0 EXCEPT !.pc = "done", !.error = "Only admins can add members"]
            ELSE [r0 EXCEPT !.pc = "add", !.group = groups[g], !.i = 1]]
  /\ UNCHANGED <<groups, senderKeys, lastUpsert, distributors, sseVars, notifVars, nonGroupVars>>

\* one round of the loop: group.addMember(memberId) throws 'User is already a
\* member', which the loop skips, or pushes the member and saves; the save of
\* a pushed element is a $push, applied whatever the stored array holds
AddMember(p) ==
  /\ removers[p].pc = "add"
  /\ LET r == removers[p]
         m == r.memberIds[r.i]
         next == IF r.i = Len(r.memberIds) THEN "addmsg" ELSE "add"
     IN IF IsMember(r.group, m)
        THEN /\ groups' = groups
             /\ removers' = [removers EXCEPT ![p].i = @ + 1, ![p].pc = next]
        ELSE /\ groups' = [groups EXCEPT ![r.groupId].members = @ \cup {m},
                                         ![r.groupId].v = @ + 1]
             /\ removers' = [removers EXCEPT ![p].i = @ + 1, ![p].pc = next,
                                             ![p].group.members = @ \cup {m},
                                             ![p].group.v = @ + 1,
                                             ![p].added = @ \cup {m}]
  /\ UNCHANGED <<senderKeys, lastUpsert, distributors, sseVars, notifVars, nonGroupVars>>

\* User.findById and Message.create of the system message
AddSystemMessage(p) ==
  /\ removers[p].pc = "addmsg"
  /\ removers' = [removers EXCEPT ![p].pc = "addnotify"]
  /\ UNCHANGED <<groups, senderKeys, lastUpsert, distributors, sseVars, notifVars, nonGroupVars>>

\* createNotifications(memberIds, 'group.invite', ...); the recipients hold no
\* stream here, so each call is its Notification.create
AddNotify(p) ==
  /\ removers[p].pc = "addnotify"
  /\ \A u \in Users : connections[u] = NoSink
  /\ LET ids == removers[p].memberIds
     IN notifications' =
          notifications \o [i \in 1..Len(ids) |-> Notification(ids[i], "group.invite")]
  /\ removers' = [removers EXCEPT ![p].pc = "addcue"]
  /\ UNCHANGED <<groups, senderKeys, lastUpsert, distributors, sseVars, notifCalls, nonGroupVars>>

\* existingMemberIds: the members of the loaded document not listed in memberIds
ExistingMemberIds(group, memberIds) == AsList(group.members \ Range(memberIds))

RECURSIVE CueEach(_, _, _, _)
\* for (const newMemberId of memberIds) sseManager.sendToUsers(existingMemberIds, ...)
CueEach(w, memberIds, existing, failing) ==
  IF memberIds = <<>> THEN w
  ELSE CueEach(SendToUsers(w, existing, Event("group:member_added", "", 0), failing),
               Tail(memberIds), existing, failing)

\* the code after the notifications: the rotation cue
AddCue(p) ==
  /\ removers[p].pc = "addcue"
  /\ LET r == removers[p]
         existing == ExistingMemberIds(r.group, r.memberIds)
     IN \E failing \in SUBSET Online(existing) :
          SetSSE(CueEach(SSE, r.memberIds, existing, failing))
  /\ removers' = [removers EXCEPT ![p].pc = "done"]
  /\ UNCHANGED <<groups, senderKeys, lastUpsert, distributors, notifVars, nonGroupVars>>

\* GroupSenderKey.deleteMany({ groupId }): the documents left
DeleteAllSenderKeysForGroup(store, g) ==
  LET keep == {row \in BagToSet(store) : row.groupId # g}
  IN [row \in keep |-> store[row]]

\* deleteGroup up to the save: the group and the creator check
DeleteGroupStart(p) ==
  /\ removers[p].pc = "idle"
  /\ \E g \in Groups, u \in Users :
       LET r0 == [IdleRemover EXCEPT !.op = "deleteGroup", !.groupId = g, !.userId = u]
       IN removers' = [removers EXCEPT ![p] =
            IF ~FindActiveGroup(g) THEN [r0 EXCEPT !.pc = "done", !.error = "Group not found"]
            ELSE IF ~IsCreator(groups[g], u)
              THEN [r0 EXCEPT !.pc = "done",
                              !.error = "Only the creator can delete the group"]
            ELSE [r0 EXCEPT !.pc = "delsave", !.group = [groups[g] EXCEPT !.isActive = FALSE]]]
  /\ UNCHANGED <<groups, senderKeys, lastUpsert, distributors, sseVars, notifVars, nonGroupVars>>

\* group.isActive = false; await group.save(): writes the modified path
DeleteGroupSave(p) ==
  /\ removers[p].pc = "delsave"
  /\ groups' = [groups EXCEPT ![removers[p].groupId].isActive = FALSE]
  /\ removers' = [removers EXCEPT ![p].pc = "delnotify"]
  /\ UNCHANGED <<senderKeys, lastUpsert, distributors, sseVars, notifVars, nonGroupVars>>

\* User.findById and createNotifications(memberIds, 'group.deleted', ...),
\* after which deleteGroup returns; the recipients hold no stream here, so
\* each call is its Notification.create
DeleteGroupNotify(p) ==
  /\ removers[p].pc = "delnotify"
  /\ \A u \in Users : connections[u] = NoSink
  /\ LET ids == AsList(removers[p].group.members)
     IN notifications' =
          notifications \o [i \in 1..Len(ids) |-> Notification(ids[i], "group.deleted")]
  /\ removers' = [removers EXCEPT ![p].pc = "done"]
  /\ UNCHANGED <<groups, senderKeys, lastUpsert, distributors, sseVars, notifCalls, nonGroupVars>>

\* the groups and sender keys when the calls start: g1 created by u1 with
\* members u2 and u3, g2 created by u2 with member u3, who holds a sender key
\* of u2 in g2
InitGroup(creator, members) ==
  [isActive |-> TRUE, createdBy |-> creator, members |-> members, admins |-> {creator}, v |-> 0]

InitRow == Row("g2", "u2", "d1", Dist("u3", "d1", "k0", 1))

GroupsIdle ==
  /\ groups = [g \in Groups |-> IF g = "g1" THEN InitGroup("u1", {"u1", "u2", "u3"})
                                ELSE InitGroup("u2", {"u2", "u3"})]
  /\ senderKeys = SetToBag({InitRow})
  /\ lastUpsert = {InitRow}
  /\ distributors = [p \in Distributors |-> IdleDistributor]
  /\ removers = [p \in Removers |-> IdleRemover]

KeysIdle ==
  /\ keyBundles = [d \in Devices |-> NoBundle]
  /\ uploaded = [d \in Devices |-> <<>>]
  /\ deviceDocs = OwnDevices
  /\ uploaders = [p \in Uploaders |-> IdleUploader]
  /\ fetchers = [p \in Fetchers |-> IdleFetcher]
\* the locals of a sendEncryptedMessage call and of a deleteMessage call
IdleSender ==
  [pc |-> "idle", chatId |-> "g1", senderId |-> "u1", type |-> "text", ciphertext |-> "",
   group |-> NoGroup, id |-> 0, error |-> ""]

IdleDeleter ==
  [pc |-> "idle", chatId |-> "g1", messageId |-> 0, userId |-> "u1", group |-> NoGroup,
   authorized |-> FALSE, error |-> ""]

\* no encrypted message stored, no call started
IdleMarker ==
  [pc |-> "idle", chatId |-> "g1", messageId |-> 0, userId |-> "u1", error |-> ""]

MessagesIdle ==
  /\ encryptedMessages = <<>>
  /\ senders = [p \in Senders |-> IdleSender]
  /\ deleters = [p \in Deleters |-> IdleDeleter]
  /\ markers = [p \in Markers |-> IdleMarker]

InitSenderKeys ==
  SseIdle /\ KeysIdle /\ GroupsIdle /\ NotifIdle /\ MessagesIdle /\ LimiterIdle

NextSenderKeys ==
  \/ \E p \in Distributors : DistributeStart(p) \/ DistributeWrite(p) \/ DistributeCue(p)
  \/ \E p \in Removers :
       \/ RemoveStart(p)
       \/ RemoveSave(p)
       \/ RemoveSystemMessage(p)
       \/ RemoveNotify(p)
       \/ RemoveDeleteKeys(p)
       \/ RemoveCue(p)
       \/ RemoveFails(p)

SpecSenderKeys == InitSenderKeys /\ [][NextSenderKeys]_vars

\* ---------------------------------------------------------------- C6
StoredRows == BagToSet(senderKeys)

Involves(row, u) == row.senderId = u \/ row.recipientId = u

\* C7: deleteSenderKeysForUser(g, u) deletes exactly the documents of group g
\* in which u is the sender or the recipient, returns their number, and leaves
\* every other document as it was.
C7_DeleteExactly ==
  [][\A p \in Removers :
       removers[p].pc = "delete" /\ removers'[p].pc = "cue" =>
         LET g == removers[p].groupId
             u == removers[p].targetUserId
             gone == {row \in StoredRows : row.groupId = g /\ Involves(row, u)}
         IN /\ BagToSet(senderKeys') = StoredRows \ gone
            /\ \A row \in StoredRows \ gone :
                 CopiesIn(row, senderKeys') = CopiesIn(row, senderKeys)
            /\ removers'[p].deletedCount = Cardinality(gone)]_vars

\* the delete has removed a document with the user as sender and one with the
\* user as recipient, and has left a document of the group and one of the
\* other group that names the user
C7_Witness ==
  \E p \in Removers :
    /\ removers[p].pc = "cue"
    /\ removers[p].deletedCount = 2
    /\ \E row \in lastUpsert \ StoredRows :
         row.groupId = removers[p].groupId /\ row.senderId = removers[p].targetUserId
    /\ \E row \in lastUpsert \ StoredRows :
         row.groupId = removers[p].groupId /\ row.recipientId = removers[p].targetUserId
    /\ \E row \in StoredRows : row.groupId = removers[p].groupId
    /\ \E row \in StoredRows :
         row.groupId # removers[p].groupId /\ Involves(row, removers[p].targetUserId)

\* ---------------------------------------------------------------- C8
\* the removals that changed the membership and are over, with or without
\* an error
RemovalsOver == {p \in Removers : removers[p].pc = "done" /\ removers[p].error \in {"", "rejected"}}

\* C8: once removeMember(g, u) has finished, normally or with an error after
\* the membership was changed, no GroupSenderKey document of g names u as
\* sender or recipient.
C8_PurgedOnceRemoved ==
  \A p \in RemovalsOver :
    removers[p].targetUserId \notin groups[removers[p].groupId].members =>
      \A row \in StoredRows :
        row.groupId = removers[p].groupId => ~Involves(row, removers[p].targetUserId)

\* ---------------------------------------------------------------- C21
\* the bulk write of call p applies one upsert in this step
Writes(p) == distributors[p].pc = "write" /\ distributors'[p] # distributors[p]

\* C21: the version stored for a tuple never decreases, and an upsert applied
\* to a tuple that has a document leaves that document with a greater version.
C21_VersionNeverDecreases ==
  [][/\ \A old \in StoredRows : \A new \in BagToSet(senderKeys') :
          SameTuple(old, new) => new.version >= old.version
     /\ \A p \in Distributors :
          Writes(p) =>
            LET d == distributors[p]
                new == Row(d.groupId, d.senderId, d.senderDeviceId, d.distributions[d.i])
            IN \A old \in StoredRows : SameTuple(old, new) => new.version > old.version
    ]_vars

\* ========================================================= encrypted relay
\* encryptedMessageSchema.ciphertext: { type: String, required: true }; the
\* required validator of a string path rejects the empty string
CiphertextValid(doc) == doc.ciphertext # ""

\* the validation mongoose runs before it writes a created or saved document
ValidMessage(doc) == CiphertextValid(doc)

AllMembers(group, u) == AsList(group.members)

\* group.members without the sender, in document order
OtherMembers(group, u) == AsList(group.members \ {u})

\* sendEncryptedMessage up to EncryptedMessage.create: the participant check
SendStart(p) ==
  /\ senders[p].pc = "idle"
  /\ \E g \in Groups, u \in Users, t \in {"text", "image"}, c \in {"c1", ""} :
       LET s0 == [IdleSender EXCEPT !.chatId = g, !.senderId = u, !.type = t,
                                    !.ciphertext = c, !.group = groups[g]]
           fail(msg) == [IdleSender EXCEPT !.pc = "done", !.chatId = g, !.senderId = u,
                                           !.error = msg]
       IN senders' = [senders EXCEPT ![p] =
            IF ~FindActiveGroup(g) THEN fail("E2E_004")
            ELSE IF ~IsMember(groups[g], u) THEN fail("E2E_004")
            ELSE [s0 EXCEPT !.pc = "create"]]
  /\ UNCHANGED <<encryptedMessages, deleters, sseVars, notifVars, markers, nonMsgVars>>

NewMessage(s) ==
  [chatId |-> s.chatId, senderId |-> s.senderId, senderDeviceId |-> "d1", type |-> s.type,
   ciphertext |-> s.ciphertext, isDeleted |-> FALSE, readBy |-> <<>>]

\* EncryptedMessage.create({...})
SendCreate(p) ==
  /\ senders[p].pc = "create"
  /\ IF ValidMessage(NewMessage(senders[p]))
     THEN /\ encryptedMessages' = Append(encryptedMessages, NewMessage(senders[p]))
          /\ senders' = [senders EXCEPT ![p].pc = "push", ![p].id = Len(encryptedMessages) + 1]
     ELSE /\ encryptedMessages' = encryptedMessages
          /\ senders' = [senders EXCEPT ![p] =
               [IdleSender EXCEPT !.pc = "done", !.error = "ValidationError"]]
  /\ UNCHANGED <<deleters, sseVars, notifVars, markers, nonMsgVars>>

\* the code after the create: the message:encrypted push to the other members
SendPush(p) ==
  /\ senders[p].pc = "push"
  /\ LET ids == OtherMembers(senders[p].group, senders[p].senderId)
     IN /\ \E failing \in SUBSET Online(ids) :
             SetSSE(SendToUsers(SSE, ids, Event("message:encrypted", "", senders[p].id), failing))
        /\ senders' = [senders EXCEPT ![p].pc = IF ids = <<>> THEN "touch" ELSE "notify"]
  /\ UNCHANGED <<encryptedMessages, deleters, notifVars, markers, nonMsgVars>>

\* User.findById and createNotifications(recipientIds, 'message.encrypted', ...):
\* every Notification.create validates the type against the enum
SendNotify(p) ==
  /\ senders[p].pc = "notify"
  /\ LET ids == OtherMembers(senders[p].group, senders[p].senderId)
     IN IF "message.encrypted" \in NotificationTypes
        THEN \E failing \in SUBSET Online(ids) :
               /\ SetSSE(SendToUsers(SSE, AsList(Online(ids)),
                                     Event("notification", "", senders[p].id), failing))
               /\ notifications' = notifications \o
                    [i \in 1..Len(ids) |->
                       [Notification(ids[i], "message.encrypted") EXCEPT
                          !.isDelivered = MarkIfSent(ids[i] \in Online(ids) \ failing)]]
               /\ senders' = [senders EXCEPT ![p].pc = "touch"]
        ELSE /\ notifications' = notifications
             /\ senders' = [senders EXCEPT ![p].pc = "done", ![p].error = "ValidationError"]
             /\ UNCHANGED sseVars
  /\ UNCHANGED <<encryptedMessages, deleters, notifCalls, markers, nonMsgVars>>

\* group.lastActivity = new Date(); await group.save()
SendTouch(p) ==
  /\ senders[p].pc = "touch"
  /\ senders' = [senders EXCEPT ![p].pc = "done"]
  /\ UNCHANGED <<encryptedMessages, deleters, sseVars, notifVars, markers, nonMsgVars>>

\* deleteMessage up to EncryptedMessage.findOne: the participant check
DeleteStart(p) ==
  /\ deleters[p].pc = "idle"
  /\ \E g \in Groups, m \in 1..Len(encryptedMessages), u \in Users :
       LET d0 == [IdleDeleter EXCEPT !.chatId = g, !.messageId = m, !.userId = u,
                                     !.group = groups[g]]
       IN deleters' = [deleters EXCEPT ![p] =
            IF ~FindActiveGroup(g) \/ ~IsMember(groups[g], u)
            THEN [d0 EXCEPT !.pc = "done", !.group = NoGroup, !.error = "E2E_004"]
            ELSE [d0 EXCEPT !.pc = "find"]]
  /\ UNCHANGED <<encryptedMessages, senders, sseVars, notifVars, markers, nonMsgVars>>

AnyoneMayDelete(message, group, u) == TRUE

\* const isSender = ...; const isAdmin = group.isAdmin(userId)
MayDelete(message, group, u) == message.senderId = u \/ IsAdmin(group, u)

\* EncryptedMessage.findOne({ _id: messageId, chatId }), the sender-or-admin
\* check, and the changes to the loaded document
DeleteFind(p) ==
  /\ deleters[p].pc = "find"
  /\ LET d == deleters[p]
         fail(msg) == [d EXCEPT !.pc = "done", !.error = msg]
     IN deleters' = [deleters EXCEPT ![p] =
          IF encryptedMessages[d.messageId].chatId # d.chatId THEN fail("Message not found")
          ELSE IF ~MayDelete(encryptedMessages[d.messageId], d.group, d.userId)
            THEN fail("You can only delete your own messages or be a group admin")
          ELSE [d EXCEPT !.pc = "save", !.authorized = TRUE]]
  /\ UNCHANGED <<encryptedMessages, senders, sseVars, notifVars, markers, nonMsgVars>>

\* message.isDeleted = true; message.ciphertext = ''
Blanked(doc) == [doc EXCEPT !.isDeleted = TRUE, !.ciphertext = ""]

\* await message.save(): the modified paths are validated, then written
DeleteSave(p) ==
  /\ deleters[p].pc = "save"
  /\ LET d == deleters[p]
         doc == Blanked(encryptedMessages[d.messageId])
     IN IF ValidMessage(doc)
        THEN /\ encryptedMessages' = [encryptedMessages EXCEPT ![d.messageId] = doc]
             /\ deleters' = [deleters EXCEPT ![p].pc = "saved"]
        ELSE /\ encryptedMessages' = encryptedMessages
             /\ deleters' = [deleters EXCEPT ![p].pc = "saved", ![p].error = "ValidationError"]
  /\ UNCHANGED <<senders, sseVars, notifVars, markers, nonMsgVars>>

\* the code after the save: a rejected save ends deleteMessage with its error,
\* otherwise the message:deleted push to the members
DeleteAfterSave(p) ==
  /\ deleters[p].pc = "saved"
  /\ deleters' = [deleters EXCEPT ![p].pc = "done"]
  /\ IF deleters[p].error = ""
     THEN LET ids == AsList(deleters[p].group.members)
          IN \E failing \in SUBSET Online(ids) :
               SetSSE(SendToUsers(SSE, ids,
                                  Event("message:deleted", "", deleters[p].messageId), failing))
     ELSE UNCHANGED sseVars
  /\ UNCHANGED <<encryptedMessages, senders, notifVars, markers, nonMsgVars>>

\* markAsRead up to EncryptedMessage.findOne: the participant check
MarkReadStart(p) ==
  /\ markers[p].pc = "idle"
  /\ \E g \in Groups, m \in 1..Len(encryptedMessages), u \in Users :
       markers' = [markers EXCEPT ![p] =
         [IdleMarker EXCEPT
            !.chatId = g, !.messageId = m, !.userId = u,
            !.pc = IF ~FindActiveGroup(g) \/ ~IsMember(groups[g], u) THEN "done" ELSE "find",
            !.error = IF ~FindActiveGroup(g) \/ ~IsMember(groups[g], u) THEN "E2E_004"
                      ELSE ""]]
  /\ UNCHANGED <<encryptedMessages, senders, deleters, sseVars, notifVars, nonMsgVars>>

\* message.readBy.some((r) => r.userId.toString() === userId.toString())
AlreadyRead(message, u) == \E i \in 1..Len(message.readBy) : message.readBy[i] = u

\* EncryptedMessage.findOne({ _id: messageId, chatId }) and the test of the
\* loaded document; message.readBy.push(...) marks the array for a $push
MarkReadFind(p) ==
  /\ markers[p].pc = "find"
  /\ LET k == markers[p]
         message == encryptedMessages[k.messageId]
     IN markers' = [markers EXCEPT ![p] =
          IF message.chatId # k.chatId
          THEN [k EXCEPT !.pc = "done", !.error = "Message not found"]
          ELSE IF AlreadyRead(message, k.userId) THEN [k EXCEPT !.pc = "done"]
          ELSE [k EXCEPT !.pc = "save"]]
  /\ UNCHANGED <<encryptedMessages, senders, deleters, sseVars, notifVars, nonMsgVars>>

\* await message.save(): { $push: { readBy: { $each: [{ userId, readAt }] } } }
MarkReadSave(p) ==
  /\ markers[p].pc = "save"
  /\ encryptedMessages' = [encryptedMessages EXCEPT
       ![markers[p].messageId].readBy = Append(@, markers[p].userId)]
  /\ markers' = [markers EXCEPT ![p].pc = "done"]
  /\ UNCHANGED <<senders, deleters, sseVars, notifVars, nonMsgVars>>

\* g1 created by u1 with members u2 and u3, g2 created by u2 and holding
\* nobody else
InitMessages ==
  /\ SseIdle /\ KeysIdle /\ NotifIdle /\ MessagesIdle /\ LimiterIdle
  /\ groups = [g \in Groups |-> IF g = "g1" THEN InitGroup("u1", {"u1", "u2", "u3"})
                                ELSE InitGroup("u2", {"u2"})]
  /\ senderKeys = EmptyBag
  /\ lastUpsert = {}
  /\ distributors = [p \in Distributors |-> IdleDistributor]
  /\ removers = [p \in Removers |-> IdleRemover]

NextMessages ==
  \/ \E p \in Senders :
       SendStart(p) \/ SendCreate(p) \/ SendPush(p) \/ SendNotify(p) \/ SendTouch(p)
  \/ \E p \in Deleters :
       DeleteStart(p) \/ DeleteFind(p) \/ DeleteSave(p) \/ DeleteAfterSave(p)

SpecMessages == InitMessages /\ [][NextMessages]_vars

\* ---------------------------------------------------------------- C9
\* C9: after deleteMessage by the original sender or a group admin the stored
\* message has isDeleted = true and an empty ciphertext.
C9_DeletedIsBlank ==
  \A p \in Deleters :
    deleters[p].pc = "done" /\ deleters[p].authorized =>
      /\ encryptedMessages[deleters[p].messageId].isDeleted
      /\ encryptedMessages[deleters[p].messageId].ciphertext = ""

\* ----------------------------------------------- notifications and streams
\* the types the callers pass
CallerTypes == {"group.invite"}

\* the steps of the calls in P, of the requests in P or on the response
\* objects in S, made for the users in R
CreateSteps(P, R) ==
  \/ \E p \in P, u \in R, t \in CallerTypes : CreateStart(p, u, t)
  \/ \E p \in P : CreatePush(p) \/ CreateSave(p)

StreamSteps(S, R) ==
  \/ \E s \in S, u \in R : StreamConnect(s, u)
  \/ \E s \in S : StreamRead(s) \/ StreamReplay(s) \/ StreamMark(s)

PollSteps(P, R) ==
  \/ \E p \in P, u \in R : PollStart(p, u)
  \/ \E p \in P : PollRead(p) \/ PollMark(p) \/ PollRespond(p)

ReadSteps(P, R) ==
  \/ \E p \in P, id \in 1..NumCreators, u \in R : MarkAsReadFind(p, id, u)
  \/ \E p \in P : MarkAsReadSave(p)
  \/ \E u \in R : MarkAllAsRead(u)

InitNotifications ==
  SseIdle /\ KeysIdle /\ GroupsIdle /\ NotifIdle /\ MessagesIdle /\ LimiterIdle

\* publishes, streams, polls and read acknowledgements of two users
NextNotifications ==
  \/ CreateSteps(Creators, {"u1", "u2"})
  \/ StreamSteps({1}, {"u1"})
  \/ ClientClose(1)
  \/ PollSteps(Pollers, {"u1"})

SpecNotifications == InitNotifications /\ [][NextNotifications]_vars

\* one publish to either user, the stream and the polls of u1, and the read
\* acknowledgements of both
NextAcks ==
  \/ CreateSteps({1}, {"u1", "u2"})
  \/ StreamSteps({1}, {"u1"})
  \/ PollSteps(Pollers, {"u1"})
  \/ ReadSteps(Readers, {"u1", "u2"})

SpecAcks == InitNotifications /\ [][NextAcks]_vars

\* the streams of two users with their heartbeats, closes and publishes, and
\* the cleanup timer
NextStreams ==
  \/ CreateSteps({1}, {"u1", "u2"})
  \/ StreamSteps(Sinks, {"u1", "u2"})
  \/ \E s \in Sinks : Heartbeat(s) \/ ClientClose(s)
  \/ Tick
  \/ Cleanup

SpecStreams == InitNotifications /\ [][NextStreams]_vars

\* the publishes to u1, its stream and its polls, and exits of the server
\* process while a publish is in flight
NextCrash ==
  \/ CreateSteps(Creators, {"u1"})
  \/ StreamSteps({1}, {"u1"})
  \/ PollSteps(Pollers, {"u1"})
  \/ Crash

SpecCrash == InitNotifications /\ [][NextCrash]_vars

\* one publish to u1, its stream with heartbeat, close and cleanup, and its
\* polls
NextObserve ==
  \/ CreateSteps({1}, {"u1"})
  \/ StreamSteps({1}, {"u1"})
  \/ Heartbeat(1)
  \/ ClientClose(1)
  \/ Tick
  \/ Cleanup
  \/ PollSteps(Pollers, {"u1"})

\* every call and request that has started takes its next step, and u1 keeps
\* polling
FairObserve ==
  /\ \A p \in Creators : WF_vars(CreatePush(p)) /\ WF_vars(CreateSave(p))
  /\ \A s \in Sinks : WF_vars(StreamRead(s)) /\ WF_vars(StreamReplay(s)) /\ WF_vars(StreamMark(s))
  /\ \A p \in Pollers :
       /\ WF_vars(PollStart(p, "u1"))
       /\ WF_vars(PollRead(p)) /\ WF_vars(PollMark(p)) /\ WF_vars(PollRespond(p))

SpecObserve == InitNotifications /\ [][NextObserve]_vars /\ FairObserve

\* notification id was written to a response object of its recipient
Written(id) ==
  \E s \in Sinks :
    /\ streams[s].pc # "idle"
    /\ streams[s].userId = notifications[id].user
    /\ Event("notification", "", id) \in Range(responses[s].written)

\* notification id was sent to its recipient in a poll response
Pulled(id) == <<notifications[id].user, id>> \in pulled

\* notification id is in the list a pull in flight has read
Fetched(id) ==
  \E p \in Pollers :
    pollers[p].userId = notifications[id].user /\ id \in Range(pollers[p].notifications)

Ascending(seq) == \A i, j \in 1..Len(seq) : i < j => seq[i] < seq[j]

\* what the read of a poll hands to the rest of the request
ReadResult(p) == IF pollers'[p].pc = "mark" THEN pollers'[p].notifications ELSE <<>>

\* ---------------------------------------------------------------- C2
\* C2: a pull for u hands back every notification of u that was neither written
\* to a sink of u nor returned by an earlier pull (nor is held by a concurrent
\* pull that has read it), in ascending creation order,
\* each once and only notifications of u; none of them was returned by an
\* earlier pull; and when the response is sent every returned notification is
\* marked delivered.
C2_PullReturnsOnce ==
  [][\A p \in Pollers :
       /\ pollers[p].pc = "read" /\ pollers'[p] # pollers[p] =>
            LET u == pollers[p].userId
                got == ReadResult(p)
            IN /\ \A id \in 1..Len(notifications) :
                    notifications[id].user = u /\ ~Written(id) /\ ~Pulled(id) /\ ~Fetched(id)
                      => id \in Range(got)
               /\ Ascending(got)
               /\ \A id \in Range(got) : notifications[id].user = u /\ ~Pulled(id)
       /\ pollers[p].pc = "respond" /\ pollers'[p].pc = "idle" =>
            \A id \in Range(pollers[p].notifications) :
              notifications'[id].isDelivered /\ <<pollers[p].userId, id>> \in pulled'
    ]_vars

\* two notifications published to u1 while it had no stream were returned by a
\* pull, and a following pull has read and found nothing
C2_Witness ==
  /\ pulled = {<<"u1", 1>>, <<"u1", 2>>}
  /\ \A id \in 1..Len(notifications) : ~Written(id)
  /\ \A s \in Sinks : streams[s].pc = "idle"
  /\ \E p \in Pollers :
       pollers[p].pc = "read" /\ pollers[p].userId = "u1" /\ pollers[p].elapsed > 0

\* ---------------------------------------------------------------- C10
IsReplayed(id, ids) == id \in Range(ids)

\* C10: the replay of streamSSE writes the undelivered notifications it read
\* to the user's sink in ascending creation order, as far as the writes
\* succeed; the mark that follows sets isDelivered on exactly those written;
\* and after a replay in which every write succeeded a pull of that user
\* returns none of them.
C10_ReplayInOrder ==
  [][\A s \in Sinks :
       LET u == streams[s].userId
           res == connections[u]
           sentIds == streams'[s].notificationIds
       IN /\ streams[s].pc = "replay" /\ streams'[s].pc # "replay" =>
               /\ Ascending(streams[s].undelivered)
               /\ sentIds = SubSeq(streams[s].undelivered, 1, Len(sentIds))
               /\ res = NoSink => sentIds = <<>>
               /\ res # NoSink =>
                    responses'[res].written = responses[res].written \o
                      [i \in 1..Len(sentIds) |-> Event("notification", "", sentIds[i])]
          /\ streams[s].pc = "mark" /\ streams'[s].pc # "mark" =>
               \A id \in 1..Len(notifications) :
                 notifications'[id].isDelivered =
                   (notifications[id].isDelivered \/ IsReplayed(id, streams[s].notificationIds))
          /\ \A p \in Pollers :
               /\ pollers[p].pc = "read" /\ pollers'[p] # pollers[p]
               /\ pollers[p].userId = u
               /\ streams[s].pc \in {"open", "closed"}
               /\ streams[s].notificationIds = streams[s].undelivered
               => Range(ReadResult(p)) \cap Range(streams[s].undelivered) = {}
    ]_vars

\* a stream of u1 replayed two notifications, both writes succeeded and both
\* are marked, and a pull of u1 has read since and found nothing
C10_Witness ==
  \E s \in Sinks, p \in Pollers :
    /\ streams[s].pc = "open" /\ streams[s].userId = "u1"
    /\ streams[s].notificationIds = <<1, 2>>
    /\ notifications[1].isDelivered /\ notifications[2].isDelivered
    /\ pollers[p].pc = "read" /\ pollers[p].userId = "u1" /\ pollers[p].elapsed > 0

\* ---------------------------------------------------------------- C4
\* the caller acknowledged notification id: markAsRead on it or markAllAsRead
Acknowledged(u, id) == <<u, id>> \in readCalls \/ <<u, 0>> \in readCalls

\* C4: a notification has isDelivered = true only if it was written to a sink
\* of its recipient or read or returned by a pull of its recipient, and
\* isRead = true only if its recipient called markAsRead on it or markAllAsRead.
C4_FlagsEarned ==
  \A id \in 1..Len(notifications) :
    /\ notifications[id].isDelivered => Written(id) \/ Fetched(id) \/ Pulled(id)
    /\ notifications[id].isRead => Acknowledged(notifications[id].user, id)

\* a notification of u1 was written to the sink of u1 and marked delivered,
\* and is marked read although the markAsRead call of another user failed
C4_Witness ==
  /\ Len(notifications) >= 1
  /\ notifications[1].user = "u1"
  /\ notifications[1].isDelivered /\ notifications[1].isRead
  /\ Written(1) /\ ~Fetched(1) /\ ~Pulled(1)
  /\ \E p \in Readers : readers[p].error = "Notification not found"

\* ---------------------------------------------------------------- C5
\* the users the connection table maps to response object s
UsersOf(table, s) == {u \in Users : table[u] = s}

\* C5: when a step registers another response object for a user that has one,
\* the one it had is ended; an ended response object is never written again and
\* never in the connection table; a step writes to a response object only if
\* it is the one registered for its user before or after the step; and no
\* response object is registered for two users.
C5_NewestSinkOnly ==
  [][/\ \A u \in Users :
          connections[u] # NoSink /\ connections'[u] \notin {NoSink, connections[u]}
            => responses'[connections[u]].ended
     /\ \A s \in Sinks :
          /\ responses[s].ended =>
               responses'[s] = responses[s] /\ UsersOf(connections', s) = {}
          /\ responses'[s].written # responses[s].written =>
               UsersOf(connections, s) \cup UsersOf(connections', s) # {}
          /\ Cardinality(UsersOf(connections', s)) <= 1
    ]_vars

\* u1 opened a second stream while the first was registered: the first is
\* ended, and a notification published afterwards is written to the second
\* and not to the first
C5_Witness ==
  /\ connections["u1"] = 2
  /\ streams[1].userId = "u1" /\ responses[1].ended
  /\ \E id \in 1..Len(notifications) :
       /\ Event("notification", "", id) \in Range(responses[2].written)
       /\ Event("notification", "", id) \notin Range(responses[1].written)
       /\ \E p \in Creators : creators[p].id = id /\ creators[p].pc = "done"

\* ---------------------------------------------------------------- C12
\* the on-connect replay of some stream has read notification id
ReplayRead(id) == \E s \in Sinks : id \in Range(streams[s].undelivered)

\* neither an on-connect replay nor a pull has read notification id
Untouched(id) == ~ReplayRead(id) /\ ~Fetched(id) /\ ~Pulled(id)

\* call p returns in this step
Returns(p) == creators[p].pc \in {"push", "save"} /\ creators'[p].pc = "done"

\* C12 as stated: when createNotification returns and no pull has read the
\* notification, isDelivered is true if and only if its push succeeded.
C12_DeliveredIffPushed ==
  [][\A p \in Creators :
       Returns(p) /\ ~Fetched(creators[p].id)' /\ ~Pulled(creators[p].id)'
         => (notifications'[creators[p].id].isDelivered <=> creators'[p].sent)
    ]_vars

\* C12, amended: the notification is stored with isDelivered = false before
\* any push, so that an exit between the store and the push leaves it
\* undelivered unless a replay or a pull has read it, and a pull returns it;
\* when createNotification returns and neither a pull nor an on-connect
\* replay has read the notification, isDelivered is true if and only if the
\* push of createNotification succeeded.
C12_StoredBeforePush ==
  /\ [](\A p \in Creators :
          creators[p].pc = "push" =>
            /\ creators[p].id \in 1..Len(notifications)
            /\ Untouched(creators[p].id) => ~notifications[creators[p].id].isDelivered)
  /\ [][/\ \A p \in Creators :
            /\ creators[p].pc = "push" /\ creators'[p].pc = "crashed"
                 /\ Untouched(creators[p].id)
                 => ~notifications'[creators[p].id].isDelivered
            /\ Returns(p) /\ Untouched(creators[p].id)'
                 => (notifications'[creators[p].id].isDelivered <=> creators'[p].sent)
        /\ \A q \in Pollers, p \in Creators :
            /\ pollers[q].pc = "read" /\ pollers'[q] # pollers[q] /\ creators' = creators
            /\ creators[p].pc = "crashed" /\ creators[p].userId = pollers[q].userId
            /\ ~notifications[creators[p].id].isDelivered
            => creators[p].id \in Range(ReadResult(q))
      ]_vars

\* a call stored notification 1 and the process exited before any push; a
\* later pull returned the notification, which was never written to a sink
C12_Witness ==
  \E p \in Creators :
    /\ creators[p].pc = "crashed" /\ creators[p].id = 1 /\ ~creators[p].sent
    /\ ~Written(1) /\ ~ReplayRead(1)
    /\ Pulled(1) /\ notifications[1].isDelivered

\* ---------------------------------------------------------------- C13
\* the push of call p finds a sink registered and its write throws
PushFails(p) ==
  /\ creators[p].pc = "push" /\ creators'[p].pc \notin {"push", "crashed"}
  /\ connections[creators[p].userId] # NoSink
  /\ ~creators'[p].sent

Outcome(u, ok) == SendToUser(SSE, u, Event("heartbeat", "", 0), ok)

\* the heartbeat timer of stream s calls sendToUser in this step
Beats(s) == streams'[s].beats = streams[s].beats + 1

\* C14: sendToUser(u, ...) returns true exactly when u has a registered sink
\* and the write succeeds, and then the event is appended to that sink and the
\* last-activity of u is refreshed; when the write fails the sink and the
\* last-activity entry of u are removed and it returns false; without a sink
\* it returns false and leaves the table as it is; the entries of other users
\* and the other response objects never change.  The same holds of every step
\* in which a heartbeat timer calls it.
C14_SendToUserOutcome ==
  /\ [](\A u \in Users, ok \in BOOLEAN :
          LET w == Outcome(u, ok)
              res == connections[u]
          IN /\ w.sent <=> (res # NoSink /\ ok)
             /\ w.sent =>
                  /\ w.connections[u] = res /\ w.lastActivity[u] = 0
                  /\ w.responses[res].written =
                       Append(responses[res].written, Event("heartbeat", "", 0))
             /\ res # NoSink /\ ~ok =>
                  /\ w.connections[u] = NoSink /\ w.lastActivity[u] = NoEntry
                  /\ w.responses = responses
             /\ res = NoSink =>
                  /\ w.connections = connections /\ w.lastActivity = lastActivity
                  /\ w.responses = responses
             /\ \A v \in Users \ {u} :
                  w.connections[v] = connections[v] /\ w.lastActivity[v] = lastActivity[v]
             /\ \A s \in Sinks \ {res} : w.responses[s] = responses[s])
  /\ [][\A s \in Sinks :
          Beats(s) =>
            \E ok \in BOOLEAN :
              /\ connections' = Outcome(streams[s].userId, ok).connections
              /\ lastActivity' = Outcome(streams[s].userId, ok).lastActivity
              /\ responses' = Outcome(streams[s].userId, ok).responses
       ]_vars

\* the heartbeat of the stream of u1 was written after its entry had aged,
\* and refreshed it, while the write of the heartbeat of u2 failed and removed
\* the entry of u2
C14_Witness ==
  \E s, t \in Sinks :
    /\ streams[s].userId = "u1" /\ streams[s].beats = 1 /\ connections["u1"] = s
    /\ Event("heartbeat", "", 0) \in Range(responses[s].written)
    /\ lastActivity["u1"] = 0
    /\ streams[t].userId = "u2" /\ streams[t].beats = 1 /\ streams[t].pc = "open"
    /\ Event("heartbeat", "", 0) \notin Range(responses[t].written)
    /\ connections["u2"] = NoSink /\ lastActivity["u2"] = NoEntry

\* the streams of u2 and u3, a publish to u2 and the distributions of one
\* caller
Broadcaster == 1

InitBroadcast == InitSenderKeys

NextBroadcast ==
  \/ CreateSteps({1}, {"u2"})
  \/ StreamSteps(Sinks, {"u2", "u3"})
  \/ DistributeStart(Broadcaster)
  \/ DistributeWrite(Broadcaster)
  \/ DistributeCue(Broadcaster)

SpecBroadcast == InitBroadcast /\ [][NextBroadcast]_vars

\* ---------------------------------------------------------------- C15
\* the lists of distinct users
UserLists ==
  {l \in UNION {[1..n -> Users] : n \in 0..Cardinality(Users)} :
     \A i, j \in 1..Len(l) : i # j => l[i] # l[j]}

Cue == Event("group:sender_key_update", "", 0)

\* the cue of distributeSenderKeys call p is sent in this step
Cues(p) == distributors[p].pc = "cue" /\ distributors'[p].pc = "done"

\* C15: sendToUsers attempts a push to every listed user; every listed user
\* is in exactly one of the result lists, in successful exactly when
\* sendToUser for that user alone would have returned true; what is written
\* to a user and what becomes of the entry of a user is what sendToUser for
\* that user alone would have done, whatever the outcome for the users listed
\* before.  The same holds of every step in which distributeSenderKeys sends
\* its cue.
C15_IndependentOutcomes ==
  /\ [](\A ids \in UserLists : \A failing \in SUBSET Online(ids) :
          LET w == SendToUsers(SSE, ids, Cue, failing)
          IN /\ Len(w.successful) + Len(w.failed) = Len(ids)
             /\ Range(w.successful) \cup Range(w.failed) = Range(ids)
             /\ Range(w.successful) \cap Range(w.failed) = {}
             /\ \A u \in Range(ids) :
                  LET alone == SendToUser(SSE, u, Cue, u \notin failing)
                  IN /\ <<u, "group:sender_key_update">> \in w.pushed
                     /\ u \in Range(w.successful) <=> alone.sent
                     /\ w.connections[u] = alone.connections[u]
                     /\ w.lastActivity[u] = alone.lastActivity[u]
                     /\ connections[u] # NoSink =>
                          w.responses[connections[u]] = alone.responses[connections[u]]
             /\ \A u \in Users \ Range(ids) :
                  w.connections[u] = connections[u] /\ w.lastActivity[u] = lastActivity[u])
  /\ [][\A p \in Distributors :
          Cues(p) =>
            \A u \in Range(RecipientIds(distributors[p].distributions)) :
              /\ <<u, "group:sender_key_update">> \in pushed'
              /\ connections[u] # NoSink =>
                   LET res == connections[u]
                   IN \/ /\ connections'[u] = res /\ lastActivity'[u] = 0
                         /\ responses'[res].written = Append(responses[res].written, Cue)
                      \/ /\ connections'[u] = NoSink /\ lastActivity'[u] = NoEntry
                         /\ responses'[res].written = responses[res].written
       ]_vars

\* a cue went to u2 and u3, both streaming: the write to u2 failed and took
\* its sink away, the write to u3, listed after u2, succeeded
C15_Witness ==
  \E s, t \in Sinks :
    /\ distributors[Broadcaster].pc = "done" /\ distributors[Broadcaster].error = ""
    /\ streams[s].userId = "u2" /\ streams[s].pc = "open" /\ ~streams[s].closed
    /\ connections["u2"] = NoSink /\ Cue \notin Range(responses[s].written)
    /\ streams[t].userId = "u3" /\ connections["u3"] = t
    /\ Cue \in Range(responses[t].written)
    /\ {<<"u2", "group:sender_key_update">>, <<"u3", "group:sender_key_update">>} \subseteq pushed

\* the callers of the key-bundle route
RateCallers == {"u1", "u2"}

InitRate == SseIdle /\ KeysIdle /\ GroupsIdle /\ NotifIdle /\ MessagesIdle /\ LimiterIdle

NextRate ==
  \/ \E c \in RateCallers : RateLimit(c)
  \/ \E delta \in ClockSteps : Advance(delta)
  \/ Sweep

SpecRate == InitRate /\ [][NextRate]_vars

\* ---------------------------------------------------------------- C19
\* a request of caller c passes the middleware in this step
Requests(c) == rateLimitStore'[c] # rateLimitStore[c] /\ rateLimitStore'[c] # NoRecord

\* the window of the record of c is still running
InWindow(c) ==
  rateLimitStore[c] # NoRecord /\ now - rateLimitStore[c].windowStart <= windowMs

\* C19: the requests of a caller admitted in one window never exceed 60; a
\* request made in a running window in which 60 have been admitted is
\* answered with 429, code E2E_006 and a retryAfter that covers the rest of
\* the window, is not handed on and leaves the key store as it is; every
\* other request is handed on; a request of one caller changes nothing that
\* is kept for another caller.
C19_SixtyPerWindow ==
  /\ [](\A c \in Users : admitted[c] <= max)
  /\ [][\A c \in Users :
          Requests(c) =>
            /\ IF InWindow(c) /\ admitted[c] >= max
               THEN /\ lastReply'[c].status = 429 /\ lastReply'[c].code = "E2E_006"
                    /\ lastReply'[c].retryAfter \in 0..60
                    /\ lastReply'[c].retryAfter * 1000 >=
                         rateLimitStore[c].windowStart + windowMs - now
                    /\ admitted'[c] = admitted[c]
                    /\ keyBundles' = keyBundles /\ fetchers' = fetchers
               ELSE /\ lastReply'[c] = Passed
                    /\ admitted'[c] = IF InWindow(c) THEN admitted[c] + 1 ELSE 1
            /\ \A d \in Users \ {c} :
                 /\ rateLimitStore'[d] = rateLimitStore[d]
                 /\ admitted'[d] = admitted[d]
                 /\ lastReply'[d] = lastReply[d]
       ]_vars

\* u1 has had 60 requests admitted and a further one refused at the last
\* instant of its window, while u2, with one request in its own window, was
\* admitted
C19_Witness ==
  /\ admitted["u1"] = max /\ rateLimitStore["u1"].count > max
  /\ lastReply["u1"].status = 429 /\ lastReply["u1"].retryAfter = 0
  /\ now - rateLimitStore["u1"].windowStart = windowMs
  /\ rateLimitStore["u2"].windowStart = now /\ rateLimitStore["u2"].count = 1
  /\ lastReply["u2"] = Passed

\* ---------------------------------------------------------------- C20
\* the distributeSenderKeys call p starts in this step
Distributes(p) == distributors[p].pc = "idle" /\ distributors'[p].pc # "idle"

\* C20: a distributeSenderKeys call whose sender is not a member of the
\* active group when the group is read ends in that step with E2E_004; the
\* step writes or changes no GroupSenderKey record and pushes nothing, and
\* the call takes no step after it.
C20_NonMemberRejected ==
  [][\A p \in Distributors :
       /\ (/\ Distributes(p)
           /\ FindActiveGroup(distributors'[p].groupId)
           /\ distributors'[p].senderId \notin groups[distributors'[p].groupId].members) =>
            /\ distributors'[p].pc = "done" /\ distributors'[p].error = "E2E_004"
            /\ senderKeys' = senderKeys /\ lastUpsert' = lastUpsert
            /\ pushed' = pushed /\ responses' = responses
       /\ distributors[p].error = "E2E_004" => distributors'[p] = distributors[p]
    ]_vars

\* u2 or u3, removed from g1, had its distribution to g1 refused, while the
\* other call distributed and sent its cue
C20_Witness ==
  \E p, q \in Distributors :
    /\ distributors[p].pc = "done" /\ distributors[p].error = "E2E_004"
    /\ distributors[p].groupId = "g1" /\ distributors[p].senderId \in {"u2", "u3"}
    /\ distributors[p].senderId \notin groups["g1"].members
    /\ distributors[q].pc = "done" /\ distributors[q].error = ""
    /\ \E u \in Users : <<u, "group:sender_key_update">> \in pushed
    /\ \A row \in BagToSet(senderKeys) :
         ~(row.groupId = "g1" /\ row.senderId = distributors[p].senderId)

\* ================================================== relay and live sinks
\* g1 active with members u1, u2 and u3; g2 deleted (isActive false)
InitRelay ==
  /\ SseIdle /\ KeysIdle /\ NotifIdle /\ MessagesIdle /\ LimiterIdle
  /\ groups = [g \in Groups |-> IF g = "g1" THEN InitGroup("u1", {"u1", "u2", "u3"})
                                ELSE [InitGroup("u2", {"u2", "u3"}) EXCEPT !.isActive = FALSE]]
  /\ senderKeys = EmptyBag
  /\ lastUpsert = {}
  /\ distributors = [p \in Distributors |-> IdleDistributor]
  /\ removers = [p \in Removers |-> IdleRemover]

\* the streams of u1 and u2 and the sends of any user
NextRelay ==
  \/ \E s \in Sinks, u \in {"u1", "u2"} : StreamConnect(s, u)
  \/ \E s \in Sinks : StreamRead(s) \/ StreamReplay(s)
  \/ \E p \in Senders :
       SendStart(p) \/ SendCreate(p) \/ SendPush(p) \/ SendNotify(p)

SpecRelay == InitRelay /\ [][NextRelay]_vars

\* ---------------------------------------------------------------- C22
\* the sendEncryptedMessage call p starts in this step
Sends(p) == senders[p].pc = "idle" /\ senders'[p].pc # "idle"

\* the chat of the call is missing or inactive, or its sender is no member
Outsider(g, u) == ~groups[g].isActive \/ u \notin groups[g].members

MessageEvent(id) == Event("message:encrypted", "", id)

\* C22: a sendEncryptedMessage call on an inactive chat or by a non-member
\* ends in its first step with E2E_004, and that step stores no message,
\* pushes nothing and creates no notification, nor does the call take a step
\* after it; the create of a call by a member stores chatId, senderId, type and
\* ciphertext as given; its push writes message:encrypted to the sink of
\* every other member that has one (or loses that sink to a failed write) and
\* writes nothing to the sink of the sender.
C22_MembersOnly ==
  [][\A p \in Senders :
       /\ (Sends(p) /\ Outsider(senders'[p].chatId, senders'[p].senderId)) =>
            /\ senders'[p].pc = "done" /\ senders'[p].error = "E2E_004"
            /\ encryptedMessages' = encryptedMessages
            /\ notifications' = notifications
            /\ pushed' = pushed /\ responses' = responses /\ connections' = connections
       /\ senders[p].error = "E2E_004" => senders'[p] = senders[p]
       /\ (Sends(p) /\ ~Outsider(senders'[p].chatId, senders'[p].senderId)) =>
            senders'[p].pc = "create"
       /\ (senders[p].pc = "create" /\ senders'[p].pc = "push") =>
            /\ Len(encryptedMessages') = Len(encryptedMessages) + 1
            /\ SubSeq(encryptedMessages', 1, Len(encryptedMessages)) = encryptedMessages
            /\ LET doc == encryptedMessages'[senders'[p].id]
               IN /\ senders'[p].id = Len(encryptedMessages')
                  /\ doc.chatId = senders[p].chatId /\ doc.senderId = senders[p].senderId
                  /\ doc.type = senders[p].type /\ doc.ciphertext = senders[p].ciphertext
       /\ (senders[p].pc = "push" /\ senders'[p].pc # "push") =>
            LET me == senders[p].senderId
                ev == MessageEvent(senders[p].id)
            IN /\ \A u \in groups[senders[p].chatId].members \ {me} :
                    /\ <<u, "message:encrypted">> \in pushed'
                    /\ connections[u] # NoSink =>
                         \/ responses'[connections[u]].written =
                              Append(responses[connections[u]].written, ev)
                         \/ connections'[u] = NoSink
               /\ connections'[me] = connections[me]
               /\ connections[me] # NoSink =>
                    responses'[connections[me]] = responses[connections[me]]
    ]_vars

\* u1 and u2 are streaming; a message of u1 to g1 was stored and written to
\* the sink of u2 and not to the sink of u1, and a send of u3 to the deleted
\* g2 was refused
C22_Witness ==
  \E p, q \in Senders :
    /\ senders[p].senderId = "u1" /\ senders[p].chatId = "g1" /\ senders[p].id = 1
    /\ senders[p].pc \in {"notify", "done"}
    /\ encryptedMessages[1].ciphertext = "c1" /\ encryptedMessages[1].senderId = "u1"
    /\ connections["u1"] # NoSink /\ connections["u2"] # NoSink
    /\ MessageEvent(1) \in Range(responses[connections["u2"]].written)
    /\ MessageEvent(1) \notin Range(responses[connections["u1"]].written)
    /\ senders[q].pc = "done" /\ senders[q].error = "E2E_004"
    /\ senders[q].chatId = "g2" /\ senders[q].senderId = "u3"

\* ---------------------------------------------------------------- C23
\* the stored notifications of type message.encrypted addressed to u
RelayNotifications(u) ==
  {id \in 1..Len(notifications) :
     notifications[id].user = u /\ notifications[id].type = "message.encrypted"}

\* C23: a sendEncryptedMessage call by a member of a group with another
\* member, with a stored message, ends without error and has left a stored
\* notification for every other member.
C23_NotifiedEachMember ==
  \A p \in Senders :
    (/\ senders[p].pc = "done" /\ senders[p].id # 0
     /\ senders[p].group.members \ {senders[p].senderId} # {}) =>
      /\ senders[p].error = ""
      /\ \A u \in senders[p].group.members \ {senders[p].senderId} :
           RelayNotifications(u) # {}

\* ============================================================ read marks
\* a message of u1 stored in g1, its members u1, u2 and u3; g2 holds u2 only
StoredMessage ==
  NewMessage([IdleSender EXCEPT !.chatId = "g1", !.senderId = "u1", !.ciphertext = "c1"])

InitReads ==
  /\ SseIdle /\ KeysIdle /\ NotifIdle /\ LimiterIdle
  /\ groups = [g \in Groups |-> IF g = "g1" THEN InitGroup("u1", {"u1", "u2", "u3"})
                                ELSE InitGroup("u2", {"u2"})]
  /\ senderKeys = EmptyBag
  /\ lastUpsert = {}
  /\ distributors = [p \in Distributors |-> IdleDistributor]
  /\ removers = [p \in Removers |-> IdleRemover]
  /\ encryptedMessages = <<StoredMessage>>
  /\ senders = [p \in Senders |-> IdleSender]
  /\ deleters = [p \in Deleters |-> IdleDeleter]
  /\ markers = [p \in Markers |-> IdleMarker]

NextReads == \E p \in Markers : MarkReadStart(p) \/ MarkReadFind(p) \/ MarkReadSave(p)

SpecReads == InitReads /\ [][NextReads]_vars

\* ---------------------------------------------------------------- C24
\* the entries of user u in the readBy of message m
ReadEntries(m, u) ==
  Cardinality({i \in 1..Len(encryptedMessages[m].readBy) : encryptedMessages[m].readBy[i] = u})

\* C24: the readBy of a message never holds more than one entry for a user,
\* and holds one once a markAsRead call of that user for it has returned.
C24_ReadOnce ==
  \A m \in 1..Len(encryptedMessages) : \A u \in Users :
    /\ ReadEntries(m, u) <= 1
    /\ (\E p \in Markers :
          /\ markers[p].pc = "done" /\ markers[p].error = ""
          /\ markers[p].messageId = m /\ markers[p].userId = u) => ReadEntries(m, u) = 1

\* ---------------------------------------------------------------- C25
Refusal == "You can only delete your own messages or be a group admin"

\* the deleteMessage call p gets the result of its findOne in this step
Finds(p) == deleters[p].pc = "find" /\ deleters'[p].pc # "find"

\* user u sent message m or is an admin of group g
SenderOrAdmin(m, g, u) ==
  encryptedMessages[m].senderId = u \/ (u \in groups[g].members /\ u \in groups[g].admins)

DeletedEvent(m) == Event("message:deleted", "", m)

\* C25: a deleteMessage call by a member who is neither the sender of the
\* message nor an admin of its group ends at the check with an error and
\* changes nothing, a call by the sender or an admin passes the check; a call
\* that was refused takes no further step; isDeleted and ciphertext of a
\* message change, and message:deleted is pushed, only in a step of a call by
\* its sender or an admin of its group.
C25_SenderOrAdminOnly ==
  [][/\ \A p \in Deleters :
          LET d == deleters[p] IN
          /\ (Finds(p) /\ encryptedMessages[d.messageId].chatId = d.chatId) =>
               IF SenderOrAdmin(d.messageId, d.chatId, d.userId)
               THEN deleters'[p].pc = "save" /\ deleters'[p].error = ""
               ELSE /\ deleters'[p].pc = "done" /\ deleters'[p].error = Refusal
                    /\ encryptedMessages' = encryptedMessages
                    /\ pushed' = pushed /\ responses' = responses
          /\ d.error \in {Refusal, "E2E_004"} => deleters'[p] = d
     /\ \A m \in 1..Len(encryptedMessages) :
          (\/ encryptedMessages'[m].isDeleted # encryptedMessages[m].isDeleted
           \/ encryptedMessages'[m].ciphertext # encryptedMessages[m].ciphertext
           \/ \E u \in Users : <<u, "message:deleted">> \in pushed' \ pushed) =>
            \E p \in Deleters :
              /\ deleters'[p] # deleters[p] /\ deleters[p].messageId = m
              /\ SenderOrAdmin(m, deleters[p].chatId, deleters[p].userId)
    ]_vars

\* u2, a member of g1, was refused the delete of a message u3 sent to g1,
\* and the message is as it was stored
C25_Witness ==
  \E p \in Deleters :
    /\ deleters[p].pc = "done" /\ deleters[p].error = Refusal
    /\ deleters[p].userId = "u2" /\ deleters[p].chatId = "g1"
    /\ encryptedMessages[deleters[p].messageId].senderId = "u3"
    /\ encryptedMessages[deleters[p].messageId].ciphertext = "c1"
    /\ ~encryptedMessages[deleters[p].messageId].isDeleted

\* ================================================== owners of notifications
\* publishes to u1 and u2, the stream of u1, and the read marks and deletes
\* of both
NextOwners ==
  \/ CreateSteps(Creators, {"u1", "u2"})
  \/ StreamSteps({1}, {"u1"})
  \/ ReadSteps(Readers, {"u1", "u2"})
  \/ \E p \in Readers, id \in 1..NumCreators, u \in {"u1", "u2"} : DeleteNotification(p, id, u)

SpecOwners == InitNotifications /\ [][NextOwners]_vars

\* ---------------------------------------------------------------- C26
\* the markAsRead or deleteNotification call p starts in this step
Asks(p) == readers[p].pc = "idle" /\ readers'[p].pc # "idle"

\* the notifications a step changes in isRead or deletes
Touched ==
  {id \in 1..Len(notifications) :
     \/ notifications'[id].isRead # notifications[id].isRead
     \/ notifications'[id] = NoNotification /\ notifications[id] # NoNotification}

\* C26: a markAsRead or deleteNotification call for a notification of
\* another user ends with 'Notification not found' and leaves every
\* notification as it was; a notification is marked read or deleted only in a
\* step of a call made by its recipient: a markAsRead or deleteNotification of
\* the recipient for it, or a markAllAsRead of the recipient.
C26_RecipientOnly ==
  [][/\ \A p \in Readers :
          (/\ Asks(p)
           /\ notifications[readers'[p].notificationId] # NoNotification
           /\ notifications[readers'[p].notificationId].user # readers'[p].userId) =>
            /\ readers'[p].pc = "done" /\ readers'[p].error = "Notification not found"
            /\ notifications' = notifications
     /\ Touched # {} =>
          \/ \E p \in Readers :
               /\ readers'[p] # readers[p]
               /\ Touched = {readers'[p].notificationId}
               /\ notifications[readers'[p].notificationId].user = readers'[p].userId
          \/ \E u \in Users :
               /\ readers' = readers /\ <<u, 0>> \in readCalls'
               /\ \A id \in Touched : notifications[id].user = u
    ]_vars

\* u1 was refused the delete of the notification of u2, which is stored
\* unread, while a markAllAsRead of u1 has marked the notification of u1 and
\* not that of u2
C26_Witness ==
  \E p \in Readers : \E id, mine \in 1..Len(notifications) :
    /\ readers[p].pc = "done" /\ readers[p].op = "delete"
    /\ readers[p].error = "Notification not found"
    /\ readers[p].userId = "u1" /\ readers[p].notificationId = id
    /\ notifications[id].user = "u2" /\ ~notifications[id].isRead
    /\ notifications[mine].user = "u1" /\ notifications[mine].isRead
    /\ <<"u1", 0>> \in readCalls

\* ============================================================ long polls
\* publishes to u1 and u2, the stream of u1, and the long polls of both
NextPolls ==
  \/ CreateSteps({1}, {"u1", "u2"})
  \/ StreamSteps({1}, {"u1"})
  \/ PollSteps(Pollers, {"u1", "u2"})

\* the read of a request in flight returns, its timer fires, and its update
\* returns
FairPolls ==
  \A p \in Pollers : WF_vars(PollRead(p)) /\ WF_vars(PollMark(p)) /\ WF_vars(PollRespond(p))

SpecPolls == InitNotifications /\ [][NextPolls]_vars /\ FairPolls

\* ---------------------------------------------------------------- C27
\* the pairs of a user and the ids of a list of notifications
Pairs(u, found) == {<<u, id>> : id \in Range(found)}

NextMembers ==
  \E p \in Removers :
    \/ RemoveStart(p)
    \/ RemoveSave(p)
    \/ RemoveSystemMessage(p)
    \/ RemoveNotify(p)
    \/ RemoveDeleteKeys(p)
    \/ RemoveCue(p)
    \/ RemoveFails(p)
    \/ AddStart(p)
    \/ AddMember(p)
    \/ AddSystemMessage(p)
    \/ AddNotify(p)
    \/ AddCue(p)
    \/ DeleteGroupStart(p)
    \/ DeleteGroupSave(p)
    \/ DeleteGroupNotify(p)

SpecMembers == InitSenderKeys /\ [][NextMembers]_vars

\* ---------------------------------------------------------------- C28
\* the users call r has added to or removed from the members of its group
Changed(r) ==
  IF r.op = "addMembers" THEN r.added
  ELSE IF r.op = "removeMember" THEN {r.targetUserId}
  ELSE {}

\* the cue call r sends
CueOf(r) == IF r.op = "addMembers" THEN "group:member_added" ELSE "group:member_removed"

\* C28: when an addMembers, removeMember or leaveGroup call that changed the
\* members of its group has ended without error, a push of its rotation cue
\* was made to every member of the group other than the users it added or
\* removed, and no group:member_removed was pushed to the user it removed.
C28_CueToRemaining ==
  \A p \in Removers :
    LET r == removers[p] IN
      (r.pc = "done" /\ r.error = "" /\ Changed(r) # {}) =>
        /\ \A u \in r.group.members \ Changed(r) : <<u, CueOf(r)>> \in pushed
        /\ r.op = "removeMember" => <<r.targetUserId, "group:member_removed">> \notin pushed

\* ---------------------------------------------------------------- C29
\* C29: when a deleteGroup call has ended without error, no sender-key
\* document of its group is stored: deleteAllSenderKeysForGroup for the group
\* would find nothing left to delete.
C29_KeysGoneWithGroup ==
  \A p \in Removers :
    LET r == removers[p] IN
      (r.op = "deleteGroup" /\ r.pc = "done" /\ r.error = "") =>
        senderKeys = DeleteAllSenderKeysForGroup(senderKeys, r.groupId)

\* ---------------------------------------------------------------- C30
\* the ages around the threshold a last-activity entry is tried with
TriedAges == {0, 300000, 300001}

\* table w without the entries older than 5 minutes, all else as in table v
Reaped(v, w) ==
  /\ \A u \in Users :
       IF v.lastActivity[u] # NoEntry /\ v.lastActivity[u] > 300000
       THEN w.connections[u] = NoSink /\ w.lastActivity[u] = NoEntry
       ELSE w.connections[u] = v.connections[u] /\ w.lastActivity[u] = v.lastActivity[u]
  /\ w.responses = v.responses /\ w.pushed = v.pushed

\* the cleanup timer callback runs in this step: entries go while no request,
\* stream or call takes a step
Reaps ==
  /\ connections' # connections
  /\ streams' = streams /\ creators' = creators

\* C30: cleanupStaleConnections removes the entries whose last activity is
\* more than 5 minutes old and no other: an entry whose last successful push
\* or heartbeat is at most 5 minutes old stays with its sink and its age.  A
\* step of the cleanup timer changes the connection table in that way and
\* changes no notification, key bundle, device, group, sender key or message.
C30_ReapsStaleOnly ==
  /\ [](/\ Reaped(SSE, CleanupStaleConnections(SSE))
        /\ \A u \in Users, s \in Sinks, age \in TriedAges :
             LET v == [SSE EXCEPT !.connections[u] = s, !.lastActivity[u] = age]
             IN Reaped(v, CleanupStaleConnections(v)))
  /\ [][Reaps =>
          /\ Reaped(SSE, [SSE EXCEPT !.connections = connections',
                                     !.lastActivity = lastActivity',
                                     !.responses = responses', !.pushed = pushed'])
          /\ UNCHANGED <<notifications, keyBundles, deviceDocs, groups, senderKeys,
                         encryptedMessages>>
    ]_vars

\* the stream of u1 is open and nothing was pushed to u1, yet its entry is
\* gone, while u2 holds a sink whose last activity is 4 minutes old
C30_Witness ==
  /\ \E s \in Sinks :
       /\ streams[s].pc = "open" /\ ~streams[s].closed /\ streams[s].userId = "u1"
       /\ \A t \in Sinks \ {s} : streams[t].pc = "idle" \/ streams[t].userId # "u1"
  /\ \A e \in {"notification", "heartbeat"} : <<"u1", e>> \notin pushed
  /\ connections["u1"] = NoSink
  /\ connections["u2"] # NoSink /\ lastActivity["u2"] = 2 * cleanupInterval

\* ---------------------------------------------------------------- C3
\* the recipient of notification id has seen it: on a sink or in a poll response
Observed(id) == Written(id) \/ Pulled(id)

\* C3: a notification that was neither written to a sink of its recipient nor
\* read by a pull stays stored with isDelivered = false, and every stored
\* notification is eventually written to a sink of its recipient or returned
\* by a poll, given that the recipient keeps polling.
C3_EventuallyObserved ==
  /\ [](\A id \in 1..Len(notifications) :
          ~Written(id) /\ ~Fetched(id) /\ ~Pulled(id) => ~notifications[id].isDelivered)
  /\ \A id \in 1..NumCreators : (Len(notifications) >= id) ~> (Len(notifications) >= id /\ Observed(id))

\* a push of a notification to u1 was tried and failed, u1 has had a stream,
\* and the notification was returned by a later poll
C3_Witness ==
  /\ Len(notifications) >= 1
  /\ <<"u1", "notification">> \in pushed
  /\ ~Written(1) /\ Pulled(1)
  /\ streams[1].pc # "idle"

\* the state the key store is in when the calls start: KeyOwner has uploaded a
\* bundle for d1 with k1 keys and possibly one for d2, and may hold a stream
InitBundle(ik, keys) ==
  [present |-> TRUE, identityKey |-> ik, signedPreKey |-> 1, oneTimePreKeys |-> keys]

NoResponse == [ended |-> FALSE, written |-> <<>>]

\* a response object and its request after streamSSE has run with nothing to
\* replay
OpenResponse == [ended |-> FALSE, written |-> <<Event("connected", "", 0)>>]
OpenStream(u) == [IdleStream EXCEPT !.pc = "open", !.userId = u]

InitKeys ==
  /\ \E k1 \in 0..MaxKeys, has2 \in BOOLEAN :
       keyBundles = [d \in Devices |->
         IF d = "d1" THEN InitBundle("ik1", Interval(1, k1))
         ELSE IF has2 THEN InitBundle("ik2", Interval(1, 1)) ELSE NoBundle]
  /\ uploaded = [d \in Devices |-> keyBundles[d].oneTimePreKeys]
  /\ deviceDocs = OwnDevices
  /\ uploaders = [p \in Uploaders |-> IdleUploader]
  /\ fetchers = [p \in Fetchers |-> IdleFetcher]
  /\ \E online \in BOOLEAN :
       /\ connections = [u \in Users |-> IF online /\ u = KeyOwner THEN 1 ELSE NoSink]
       /\ lastActivity = [u \in Users |-> IF online /\ u = KeyOwner THEN 0 ELSE NoEntry]
       /\ responses = [s \in Sinks |-> IF online /\ s = 1 THEN OpenResponse ELSE NoResponse]
       /\ streams = [s \in Sinks |-> IF online /\ s = 1 THEN OpenStream(KeyOwner)
                                     ELSE IdleStream]
  /\ pushed = {}
  /\ notifications = <<>>
  /\ creators = [p \in Creators |-> IdleCreator]
  /\ pollers = [p \in Pollers |-> IdlePoller]
  /\ pulled = {}
  /\ readers = [p \in Readers |-> IdleReader]
  /\ readCalls = {}
  /\ GroupsIdle
  /\ MessagesIdle
  /\ LimiterIdle

NextKeys ==
  \E p \in Fetchers : FetchRead(p) \/ FetchPop(p) \/ FetchAfterPop(p)

SpecKeys == InitKeys /\ [][NextKeys]_vars

\* ------------------------------------------------- consecutive fetches
\* the one caller whose calls follow each other
Caller == 1

\* the pool sizes around the low-water mark, up to the 30 keys of the scenario
PoolSizes == (PRE_KEY_LOW_THRESHOLD - 1)..(PRE_KEY_LOW_THRESHOLD + 5)

\* KeyOwner has uploaded a bundle for d1 with a pool around the low-water mark
\* and possibly one for d2 with a single key, and may hold a stream
InitLowWater ==
  /\ \E k1 \in PoolSizes, has2 \in BOOLEAN :
       keyBundles = [d \in Devices |->
         IF d = "d1" THEN InitBundle("ik1", Interval(1, k1))
         ELSE IF has2 THEN InitBundle("ik2", Interval(1, 1)) ELSE NoBundle]
  /\ uploaded = [d \in Devices |-> keyBundles[d].oneTimePreKeys]
  /\ deviceDocs = OwnDevices
  /\ uploaders = [p \in Uploaders |-> IdleUploader]
  /\ fetchers = [p \in Fetchers |-> IdleFetcher]
  /\ \E online \in BOOLEAN :
       /\ connections = [u \in Users |-> IF online /\ u = KeyOwner THEN 1 ELSE NoSink]
       /\ lastActivity = [u \in Users |-> IF online /\ u = KeyOwner THEN 0 ELSE NoEntry]
       /\ responses = [s \in Sinks |-> IF online /\ s = 1 THEN OpenResponse ELSE NoResponse]
       /\ streams = [s \in Sinks |-> IF online /\ s = 1 THEN OpenStream(KeyOwner)
                                     ELSE IdleStream]
  /\ pushed = {}
  /\ notifications = <<>>
  /\ creators = [p \in Creators |-> IdleCreator]
  /\ pollers = [p \in Pollers |-> IdlePoller]
  /\ pulled = {}
  /\ readers = [p \in Readers |-> IdleReader]
  /\ readCalls = {}
  /\ GroupsIdle
  /\ MessagesIdle
  /\ LimiterIdle

NextLowWater ==
  FetchRead(Caller) \/ FetchPop(Caller) \/ FetchAfterPop(Caller) \/ FetchReturn(Caller)

SpecLowWater == InitLowWater /\ [][NextLowWater]_vars

\* ---------------------------------------------------------------- C11
\* the calls the caller has finished
CallsOver == fetchers[Caller].calls + (IF fetchers[Caller].pc = "done" THEN 1 ELSE 0)

\* the notices the caller's calls have pushed for device d, in order
NoticesFor(d) == SelectSeq(fetchers[Caller].notices, LAMBDA n : n.deviceId = d)

\* the calls up to call c that consumed a key of a pool of k keys and left
\* fewer than 25
LowCalls(k, c) == {i \in 1..c : i <= k /\ k - i < 25}

\* C11: in a sequence of non-overlapping fetchKeyBundle calls on a pool of k
\* keys, call i consumes key i; the notices pushed for the device are, in
\* order, one for each call that left fewer than 25 keys and none for any
\* other call, each carrying the pool size after the consumption; with 30 keys
\* the first is pushed by call 6 with 24 remaining.
C11_NoticeBelowMark ==
  fetchers[Caller].pc \in {"idle", "done"} =>
    LET k == Len(uploaded["d1"])
        low == LowCalls(k, CallsOver)
    IN /\ Len(keyBundles["d1"].oneTimePreKeys) = IF CallsOver < k THEN k - CallsOver ELSE 0
       /\ NoticesFor("d1") =
            [j \in 1..Cardinality(low) |->
               Notice("d1", k - (SortAscending(low)[j]), SortAscending(low)[j])]
       /\ k = 30 /\ CallsOver >= 6 =>
            NoticesFor("d1")[1] = Notice("d1", 24, 6)

\* 30 keys uploaded, the sixth call is over: it pushed the first notice, with
\* 24 remaining, to the owner
C11_Witness ==
  /\ Len(uploaded["d1"]) = 30
  /\ fetchers[Caller].pc = "done" /\ CallsOver = 6
  /\ NoticesFor("d1") = <<Notice("d1", 24, 6)>>
  /\ <<KeyOwner, "keys:prekey_low">> \in pushed
  /\ keyBundles["d2"].present = FALSE

\* ============================================================ key uploads
\* no bundle stored yet; KeyOwner has registered both devices, or only d1
\* while d2 is a device of u2
DeviceTables == {OwnDevices, {<<KeyOwner, "d1">>, <<"u2", "d2">>}}

Reader == 1

InitUploads ==
  /\ keyBundles = [d \in Devices |-> NoBundle]
  /\ uploaded = [d \in Devices |-> <<>>]
  /\ fetchers = [p \in Fetchers |-> IdleFetcher]
  /\ deviceDocs \in DeviceTables
  /\ uploaders = [p \in Uploaders |-> IdleUploader]
  /\ \E online \in BOOLEAN :
       /\ connections = [u \in Users |-> IF online /\ u = KeyOwner THEN 1 ELSE NoSink]
       /\ lastActivity = [u \in Users |-> IF online /\ u = KeyOwner THEN 0 ELSE NoEntry]
       /\ responses = [s \in Sinks |-> IF online /\ s = 1 THEN OpenResponse ELSE NoResponse]
       /\ streams = [s \in Sinks |-> IF online /\ s = 1 THEN OpenStream(KeyOwner)
                                     ELSE IdleStream]
  /\ pushed = {}
  /\ notifications = <<>>
  /\ creators = [p \in Creators |-> IdleCreator]
  /\ pollers = [p \in Pollers |-> IdlePoller]
  /\ pulled = {}
  /\ readers = [p \in Readers |-> IdleReader]
  /\ readCalls = {}
  /\ GroupsIdle
  /\ MessagesIdle
  /\ LimiterIdle

\* the uploads of KeyOwner and one fetch of its bundles
NextUploads ==
  \/ \E p \in Uploaders : UploadStart(p) \/ UploadFind(p) \/ UploadUpsert(p) \/ UploadNotify(p)
  \/ FetchRead(Reader) \/ FetchPop(Reader) \/ FetchAfterPop(Reader)

SpecUploads == InitUploads /\ [][NextUploads]_vars

\* ---------------------------------------------------------------- C16
\* the upload call p starts in this step, for the device it then holds
Starts(p) == uploaders[p].pc = "idle" /\ uploaders'[p].pc # "idle"

Registered(d) == <<KeyOwner, d>> \in deviceDocs

\* C16: an uploadKeyBundle call for a (userId, deviceId) pair without a Device
\* document ends at once with E2E_008, and that step changes no key bundle
\* and pushes nothing; the call never gets to the upsert or to the notice
\* later either.
C16_UnregisteredRejected ==
  /\ [](\A p \in Uploaders :
          (uploaders[p].pc # "idle" /\ ~Registered(uploaders[p].deviceId)) =>
            /\ uploaders[p].pc = "done" /\ uploaders[p].error = "E2E_008"
            /\ uploaders[p].replaced = NoBundle /\ ~uploaders[p].notified)
  /\ [][\A p \in Uploaders :
          (Starts(p) /\ ~Registered(uploaders'[p].deviceId)) =>
            /\ keyBundles' = keyBundles /\ uploaded' = uploaded
            /\ connections' = connections /\ lastActivity' = lastActivity
            /\ responses' = responses /\ pushed' = pushed
       ]_vars

\* an upload for d2, registered to u2 only, was refused while KeyOwner was
\* streaming and another upload had stored a bundle for d1
C16_Witness ==
  \E p, q \in Uploaders :
    /\ uploaders[p].pc = "done" /\ uploaders[p].error = "E2E_008"
    /\ uploaders[p].deviceId = "d2" /\ <<"u2", "d2">> \in deviceDocs
    /\ ~keyBundles["d2"].present
    /\ uploaders[q].pc = "done" /\ uploaders[q].error = "" /\ keyBundles["d1"].present
    /\ connections[KeyOwner] # NoSink

\* ---------------------------------------------------------------- C17
\* C17: an uploadKeyBundle call that is over has pushed the
\* device:identity_key_changed notice if and only if the bundle its upsert
\* replaced had a different identityKey.
C17_NoticeIffReplacedDiffers ==
  \A p \in Uploaders :
    (uploaders[p].pc = "done" /\ uploaders[p].error = "") =>
      (uploaders[p].notified <=>
         IdentityKeyChanged(uploaders[p].replaced, uploaders[p].identityKey))

\* ---------------------------------------------------------------- C18
\* the entries of the result for device d
EntriesFor(f, d) == SelectSeq(f.devices, LAMBDA e : e.deviceId = d)

\* C18: a fetchKeyBundle call that is over has failed with E2E_001 exactly
\* when its find returned no bundle, and then it has no entry and has consumed
\* nothing; otherwise its result has one entry for every bundle the find
\* returned, with the identity key and signed pre-key of that bundle, and an
\* entry of a bundle whose pool was empty carries no one-time pre-key.  The
\* step in which the find returns no bundle leaves the key store as it is.
C18_EmptyPoolStillServed ==
  /\ [](\A p \in Fetchers :
          fetchers[p].pc = "done" =>
            LET f == fetchers[p]
            IN /\ f.error = "E2E_001" <=> Len(f.bundles) = 0
               /\ f.error \in {"", "E2E_001"}
               /\ f.error = "E2E_001" => f.devices = <<>>
               /\ f.error = "" =>
                    /\ Len(f.devices) = Len(f.bundles)
                    /\ \A i \in 1..Len(f.bundles) :
                         LET snap == f.snapshot[f.bundles[i]]
                             e == f.devices[i]
                         IN /\ e.deviceId = f.bundles[i]
                            /\ e.identityKey = snap.identityKey
                            /\ e.signedPreKey = snap.signedPreKey
                            /\ Len(snap.oneTimePreKeys) = 0 => e.oneTimePreKey = NoKey)
  /\ [][\A p \in Fetchers :
          (fetchers[p].pc = "idle" /\ fetchers'[p].pc = "done"
             /\ fetchers'[p].error = "E2E_001") =>
            /\ \A d \in Devices : ~keyBundles[d].present
            /\ keyBundles' = keyBundles
       ]_vars

\* a fetch served d1, uploaded with an empty pool, without a one-time key
C18_Witness ==
  /\ fetchers[Reader].pc = "done" /\ fetchers[Reader].error = ""
  /\ \E i \in 1..Len(fetchers[Reader].devices) :
       /\ fetchers[Reader].devices[i].deviceId = "d1"
       /\ fetchers[Reader].devices[i].identityKey \in IdentityKeys
       /\ fetchers[Reader].devices[i].oneTimePreKey = NoKey
  /\ uploaded["d1"] = <<>>

\* ---------------------------------------------------------------- C1
\* the one-time pre-key a finished or running call holds for device d
KeyOf(p, d) ==
  LET hit == {i \in 1..Len(fetchers[p].devices) : fetchers[p].devices[i].deviceId = d}
  IN IF hit = {} THEN NoKey ELSE fetchers[p].devices[CHOOSE i \in hit : TRUE].oneTimePreKey

Started == {p \in Fetchers : fetchers[p].pc # "idle"}
Finished == {p \in Fetchers : fetchers[p].pc = "done"}
Holders(d) == {p \in Fetchers : KeyOf(p, d) # NoKey}

\* C1: N concurrent fetchKeyBundle calls on a device whose pool holds K keys
\* never return one key to two callers, every returned key is a key of the
\* pool, and once the N calls are over exactly min(N, K) of them hold a key.
C1_NoKeyTwice ==
  \A d \in Devices :
    /\ \A p, q \in Fetchers :
         p # q /\ KeyOf(p, d) # NoKey => KeyOf(p, d) # KeyOf(q, d)
    /\ \A p \in Holders(d) : KeyOf(p, d) \in Range(uploaded[d])
    /\ Started = Finished /\ keyBundles[d].present =>
         Cardinality(Holders(d)) = Min(Cardinality(Finished), Len(uploaded[d]))

\* more callers than keys: a call that saw keys in its snapshot lost the race
\* for the last one and returns the device without a one-time pre-key
C1_Witness ==
  /\ Finished = Fetchers
  /\ Len(uploaded["d1"]) = 1
  /\ \E p \in Fetchers :
       /\ Len(fetchers[p].snapshot["d1"].oneTimePreKeys) > 0
       /\ KeyOf(p, "d1") = NoKey
  /\ Cardinality(Holders("d1")) = 1

\* ============================================================ the key pool
\* uploads, replenishments and counts of KeyOwner and the fetch of one caller
NextPool ==
  \/ \E p \in Uploaders :
       \/ UploadStart(p) \/ UploadFind(p) \/ UploadUpsert(p) \/ UploadNotify(p)
       \/ ReplenishPreKeys(p)
       \/ GetPreKeyCount(p)
  \/ FetchRead(Reader) \/ FetchPop(Reader) \/ FetchAfterPop(Reader)

SpecPool == InitKeys /\ [][NextPool]_vars

\* ---------------------------------------------------------------- C31
\* the pool of device d
Pool(d) == keyBundles[d].oneTimePreKeys

\* sequence a is the end of sequence b
IsSuffix(a, b) == Len(a) <= Len(b) /\ a = SubSeq(b, Len(b) - Len(a) + 1, Len(b))

\* call p of the key owner acts on d in this step as op
Does(p, op, d) ==
  /\ uploaders'[p] # uploaders[p]
  /\ uploaders'[p].op = op /\ uploaders'[p].deviceId = d /\ uploaders'[p].error = ""

\* the upsert of upload call p on d is applied in this step
Upserts(p, d) == Does(p, "uploadKeyBundle", d) /\ uploaders[p].pc = "upsert"

\* fetch p gets the answer of its pop on d in this step
Pops(p, d) ==
  /\ fetchers[p].pc = "pop" /\ fetchers'[p].pc = "popped"
  /\ fetchers[p].bundles[fetchers[p].i] = d

\* C31: the pool of a device holds, in the order they were put in, the keys
\* put in last.  A replenishPreKeys appends its keys after the ones in the
\* pool and returns the new size; a pop of fetchKeyBundle takes the first key
\* of the pool and that key is the one handed out; getPreKeyCount returns the
\* size of the pool, which is never negative.  The pool changes in no other
\* way than by an upload, which sets it, a replenishment, which adds its
\* keys, and a pop, which takes one: the count is the size of the last upload
\* plus the keys replenished since minus the keys handed out since.
C31_PoolIsFifo ==
  /\ [](\A d \in Devices : IsSuffix(Pool(d), uploaded[d]))
  /\ [][\A d \in Devices :
          /\ \A p \in Uploaders :
               /\ Does(p, "replenishPreKeys", d) =>
                    /\ keyBundles'[d].oneTimePreKeys = Pool(d) \o uploaders'[p].oneTimePreKeys
                    /\ uploaders'[p].total = Len(Pool(d)) + Len(uploaders'[p].oneTimePreKeys)
               /\ Does(p, "getPreKeyCount", d) =>
                    /\ uploaders'[p].total = Len(Pool(d)) /\ uploaders'[p].total >= 0
                    /\ keyBundles' = keyBundles
               /\ Upserts(p, d) => keyBundles'[d].oneTimePreKeys = uploaders[p].oneTimePreKeys
          /\ \A p \in Fetchers : Pops(p, d) =>
               IF keyBundles[d].present /\ Pool(d) # <<>>
               THEN /\ ConsumedKey(fetchers'[p].updated) = Head(Pool(d))
                    /\ keyBundles'[d].oneTimePreKeys = Tail(Pool(d))
               ELSE /\ ConsumedKey(fetchers'[p].updated) = NoKey
                    /\ keyBundles'[d] = keyBundles[d]
          /\ keyBundles'[d] # keyBundles[d] =>
               \/ \E p \in Uploaders : Does(p, "replenishPreKeys", d) \/ Upserts(p, d)
               \/ \E p \in Fetchers : Pops(p, d)
    ]_vars

\* d1 was uploaded with keys 1 and 2; a fetch was handed key 1, a
\* replenishment then put key 12 after key 2 and returned 2, and a count has
\* returned 2
C31_Witness ==
  /\ uploaded["d1"] = <<1, 2, 12>> /\ Pool("d1") = <<2, 12>>
  /\ \E p \in Fetchers :
       /\ fetchers[p].devices # <<>>
       /\ fetchers[p].devices[1].deviceId = "d1" /\ fetchers[p].devices[1].oneTimePreKey = 1
  /\ uploaders[1].op = "replenishPreKeys" /\ uploaders[1].pc = "done" /\ uploaders[1].total = 2
  /\ uploaders[2].op = "getPreKeyCount" /\ uploaders[2].pc = "done" /\ uploaders[2].total = 2

\* ====================================================== sender-key reads
\* distributions, removals and getSenderKeys calls on g1 and g2
NextHandout ==
  \/ \E p \in Distributors :
       \/ DistributeStart(p) \/ DistributeWrite(p) \/ DistributeCue(p)
       \/ GetSenderKeysStart(p) \/ GetSenderKeysFind(p)
  \/ \E p \in Removers :
       \/ RemoveStart(p)
       \/ RemoveSave(p)
       \/ RemoveSystemMessage(p)
       \/ RemoveNotify(p)
       \/ RemoveDeleteKeys(p)
       \/ RemoveCue(p)
       \/ RemoveFails(p)

SpecHandout == InitSenderKeys /\ [][NextHandout]_vars

\* ---------------------------------------------------------------- C32
\* the getSenderKeys call p starts in this step
Gets(p) ==
  /\ distributors[p].pc = "idle" /\ distributors'[p].pc # "idle"
  /\ distributors'[p].op = "getSenderKeys"

\* the removal of u from g has been saved
Removed(g, u) ==
  \E p \in Removers :
    /\ removers[p].op = "removeMember" /\ removers[p].groupId = g
    /\ removers[p].targetUserId = u
    /\ removers[p].pc \in {"sysmsg", "notify", "delete", "cue", "done"}
    /\ removers[p].error \in {"", "rejected"}

\* C32: a getSenderKeys call for a recipient whose removal from the group has
\* been saved, and more generally for any recipient that is not a member of
\* the active group when the call starts, ends at once with E2E_004; it
\* takes no further step and returns no key, whatever is stored for that
\* recipient.
C32_RemovedGetNothing ==
  /\ [][\A p \in Distributors :
          (/\ Gets(p)
           /\ groups[distributors'[p].groupId].isActive
           /\ \/ Removed(distributors'[p].groupId, distributors'[p].recipientId)
              \/ distributors'[p].recipientId \notin groups[distributors'[p].groupId].members) =>
            /\ distributors'[p].pc = "done" /\ distributors'[p].error = "E2E_004"
            /\ distributors'[p].keys = <<>>
    ]_vars
  /\ [](\A p \in Distributors :
          distributors[p].error # "" => distributors[p].pc = "done" /\ distributors[p].keys = <<>>)

\* u2 was removed from g1 and its keys were deleted, a distribution of u3
\* has stored a key for u2 since, and getSenderKeys(g1, u2) ended with E2E_004
C32_Witness ==
  /\ Removed("g1", "u2") /\ \E q \in Removers : removers[q].pc = "done" /\ removers[q].error = ""
  /\ \E row \in BagToSet(senderKeys) :
       row.groupId = "g1" /\ row.recipientId = "u2" /\ row.senderId = "u3"
  /\ \E p \in Distributors :
       /\ distributors[p].op = "getSenderKeys" /\ distributors[p].pc = "done"
       /\ distributors[p].groupId = "g1" /\ distributors[p].recipientId = "u2"
       /\ distributors[p].error = "E2E_004" /\ distributors[p].keys = <<>>

\* ---------------------------------------------------------------- C33
\* the close callback of stream s runs in this step
Closes(s) == streams'[s].closed /\ ~streams[s].closed

\* C33: the close callback of a stream whose sink is no longer the one
\* registered for its user leaves the entry of the user as it is: the sink
\* that superseded it stays registered.
C33_SupersededCloseHarmless ==
  [][\A s \in Sinks :
       (Closes(s) /\ connections[streams[s].userId] \notin {NoSink, s}) =>
         connections'[streams[s].userId] = connections[streams[s].userId]
    ]_vars

\* ---------------------------------------------------------------- C34
\* the upload call that put one-time pre-key k into a pool
UploaderOf(k) == k \div 10

\* C34: every device entry a fetchKeyBundle call has built with a one-time
\* pre-key reports the identity key of the bundle that key was uploaded
\* with.
C34_EntryOfOneBundle ==
  \A p \in Fetchers : \A i \in 1..Len(fetchers[p].devices) :
    LET entry == fetchers[p].devices[i] IN
      entry.oneTimePreKey # NoKey =>
        /\ UploaderOf(entry.oneTimePreKey) \in Uploaders
        /\ entry.identityKey = uploaders[UploaderOf(entry.oneTimePreKey)].identityKey

\* ---------------------------------------------------------------- C35
\* fetch p pushes a keys:prekey_low notice for device d in this step, with
\* remainingCount n
Notices(p, d, n) ==
  /\ fetchers[p].pc = "popped" /\ fetchers'[p].pc # "popped"
  /\ fetchers[p].bundles[fetchers[p].i] = d
  /\ Len(fetchers'[p].notices) = Len(fetchers[p].notices) + 1
  /\ fetchers'[p].notices[Len(fetchers'[p].notices)].remainingCount = n

\* C35: a fetch that pushes keys:prekey_low for a device has consumed a key
\* of it, and the remainingCount of the notice is the size of the pool that
\* its pop left.
C35_NoticeOfOwnPop ==
  [][\A p \in Fetchers, d \in Devices, n \in 0..MaxKeys :
       Notices(p, d, n) =>
         /\ ConsumedKey(fetchers[p].updated) # NoKey
         /\ n = Len(fetchers[p].updated.oneTimePreKeys) - 1
    ]_vars

\* ---------------------------------------------------------------- C36
\* C36: the recipient of every stored sender-key document of an active group
\* is a member of that group.
C36_RecipientsAreMembers ==
  \A row \in BagToSet(senderKeys) :
    groups[row.groupId].isActive => row.recipientId \in groups[row.groupId].members

\* ---------------------------------------------------------------- C37
\* C37: no step of createNotification, of the replay of a stream, of a poll,
\* of markAsRead or of markAllAsRead takes isDelivered or isRead of a stored
\* notification from true to false.
C37_FlagsStayTrue ==
  [][\A id \in 1..Len(notifications) :
       /\ notifications[id].isDelivered => notifications'[id].isDelivered
       /\ notifications[id].isRead => notifications'[id].isRead
    ]_vars

\* a notification was pushed by its createNotification, which saved
\* isDelivered, and was marked read by a markAsRead call: both flags are set
C37_Witness ==
  \E p \in Creators :
    /\ creators[p].pc = "done" /\ creators[p].sent /\ creators[p].id > 0
    /\ readers[1].pc = "done" /\ readers[1].error = ""
    /\ readers[1].notificationId = creators[p].id
    /\ notifications[creators[p].id].isDelivered /\ notifications[creators[p].id].isRead

\* ---------------------------------------------------------------- C38
\* the ids of the notification events written to response s, in order
NotificationsOn(s) ==
  LET evs == SelectSeq(responses[s].written, LAMBDA ev : ev.event = "notification")
  IN [i \in 1..Len(evs) |-> evs[i].n]

\* C38: the notification events written to a response are in ascending
\* order of creation.
C38_AscendingOnSink ==
  \A s \in Sinks : \A i, j \in 1..Len(NotificationsOn(s)) :
    i < j => NotificationsOn(s)[i] <= NotificationsOn(s)[j]

\* ---------------------------------------------------------------- C39
\* the caller whose admission times are kept
TimedCaller == "u1"

\* as LimiterIdle, with the admission times of TimedCaller kept
InitSliding ==
  /\ SseIdle /\ KeysIdle /\ GroupsIdle /\ NotifIdle /\ MessagesIdle
  /\ rateLimitStore = [c \in Users |-> NoRecord]
  /\ now = 0
  /\ admitted = [c \in Users |-> 0]
  /\ lastReply = [c \in Users |-> NoReply]
  /\ admissions = [c \in Users |-> IF c = TimedCaller THEN Timed ELSE NotTimed]
  /\ swept = FALSE

NextSliding ==
  \/ RateLimit(TimedCaller)
  \/ \E delta \in ClockSteps : Advance(delta)
  \/ Sweep

SpecSliding == InitSliding /\ [][NextSliding]_vars

\* C39: of the requests of one caller made in the last 60 seconds, whatever
\* the position of that interval relative to the windows of the limiter, at
\* most 60 were handed on; and the retryAfter of a 429 answer is at least 1
\* and at most 60.
C39_SixtyPerSlidingMinute ==
  /\ Len(Within(admissions[TimedCaller].at, now)) <= max
  /\ lastReply[TimedCaller].status = 429 => lastReply[TimedCaller].retryAfter \in 1..60

\* the two halves of C39, each alone
C39_SlidingBound == Len(Within(admissions[TimedCaller].at, now)) <= max
C39_RetryAfterPositive ==
  lastReply[TimedCaller].status = 429 => lastReply[TimedCaller].retryAfter >= 1
====
